---- MODULE Spec2Model ----
(***************************************************************************)
(* easy-node-logging: the logger factory, its loggers and the dispatch of  *)
(* one log call to the factory's targets (src/src/index.js, the module     *)
(* that starts at line 418).                                               *)
(*                                                                         *)
(* A promise is modelled by its state ("pending", "fulfilled",             *)
(* "rejected"); the settlement of a sink operation and the promise         *)
(* reactions it triggers (the catch block of _log, Promise.all, the        *)
(* adoption of a recovery dispatch's promise) are one step, as they run    *)
(* in one turn of the event loop.                                          *)
(***************************************************************************)
EXTENDS Integers, Sequences, FiniteSets, TLC

\* ------------------------------------------------------------------ bounds
\* Number of loggers the factory creates when their names and colours vary.
MaxNamedLoggers == 2
\* Number of level-method calls made on loggers of the factory.
MaxCalls == 2
\* Number of loggers the factory creates.
MaxLoggers == 1
\* Number of dispatches (original and recovery) kept at once; the guard that
\* uses it does not bind in the program (DispatchBoundUnused).
MaxDispatches == 6
\* Number of level-method calls that have sink operations pending at once.
MaxInFlight == 1
\* Number of level-method calls whose payloads are looked at.
MaxFormatCalls == 1

\* -------------------------------------------------------------- level table
levelNums == [FATAL |-> 1, ERROR |-> 2, WARN |-> 3, INFO |-> 4, DEBUG |-> 5, TRACE |-> 6]

levels == <<"FATAL", "ERROR", "WARN", "INFO", "DEBUG", "TRACE">>

LevelNames == DOMAIN levelNums

Ranks == {levelNums[n] : n \in LevelNames}

Min(a, b) == IF a < b THEN a ELSE b

\* ------------------------------------------------------- target normalizer
\* A field the descriptor does not give.
undefined == "undefined"

NoError == "none"

\* The names levelNums answers to without having them as own properties:
\* those of Object.prototype.
Inherited == {"constructor", "toString"}

\* What levelNums[name] is for an inherited name: a function. As a threshold
\* it compares like NaN, v.level < level is false for every rank; it is
\* modelled by a number no rank exceeds.
InheritedValue == 7

\* if (level && levelNums[level] === undefined) throw new TypeError(...)
logLevelNumThrows(level) ==
  /\ level \notin {undefined, ""}
  /\ level \notin LevelNames \cup Inherited

\* return levelNums[level] || levelNums.TRACE
logLevelNum(level) ==
  IF level \in LevelNames THEN levelNums[level]
  ELSE IF level \in Inherited THEN InheritedValue
  ELSE levelNums.TRACE

logStyleThrows(style) == style \notin {"JSON", "TEXT", undefined}

logStyle(style) ==
  IF style \in {"JSON", "TEXT"} THEN style ELSE "TEXT"

errorPolicyThrows(policy) == policy \notin {"THROW", "LOG", "IGNORE", undefined}

\* An error policy that defaults to IGNORE.
errorPolicyDefaultIgnore(policy) ==
  IF policy \in {"THROW", "LOG", "IGNORE"} THEN policy ELSE "IGNORE"

errorPolicy(policy) ==
  IF policy \in {"THROW", "LOG", "IGNORE"} THEN policy ELSE "LOG"

\* target.<flag> || false, for a flag the descriptor gives as a boolean or
\* does not give (target.given holds the names of the flags it gives).
OrFalse(target, flag, value) == flag \in target.given /\ value

baseTargetOptions(target) ==
  [level          |-> logLevelNum(target.logLevel),
   color          |-> OrFalse(target, "color", target.color),
   uniform        |-> OrFalse(target, "uniformLength", target.uniformLength),
   format         |-> logStyle(target.style),
   fullTimestamps |-> OrFalse(target, "fullTimestamps", target.fullTimestamps),
   errorPolicy    |-> errorPolicy(target.errorPolicy)]

\* The error baseTargetOptions throws: the object literal evaluates level,
\* format and errorPolicy in this order.
baseTargetOptionsThrows(target) ==
  IF logLevelNumThrows(target.logLevel) THEN "TypeError: log level"
  ELSE IF logStyleThrows(target.style) THEN "TypeError: log style"
  ELSE IF errorPolicyThrows(target.errorPolicy) THEN "TypeError: error policy"
  ELSE NoError

\* createStream: the path is checked, then createWriteStream makes the
\* stream, which opens (and creates) the file.
createStreamThrows(path) == path = undefined

\* The parsed target of one descriptor: its kind-specific part.
\* func is the callable of a FUNCTION target: "returns" (gives back a value
\* or a promise), "throws" (throws synchronously), "console.log" (STDOUT).
ParsedKind(target) ==
  CASE target.type = "FILE"     -> [type |-> "STREAM", private |-> TRUE, func |-> undefined]
    [] target.type = "STREAM"   -> [type |-> "STREAM", private |-> FALSE, func |-> undefined]
    [] target.type = "POST"     -> [type |-> IF target.https THEN "HTTPS" ELSE "HTTP",
                                    private |-> FALSE, func |-> undefined]
    [] target.type = "STDOUT"   -> [type |-> "FUNCTION", private |-> FALSE, func |-> "console.log"]
    [] target.type = "FUNCTION" -> [type |-> "FUNCTION", private |-> FALSE, func |-> target.function]

ParseTarget(target) ==
  LET k == ParsedKind(target)
      b == baseTargetOptions(target)
  IN  [type |-> k.type, private |-> k.private, func |-> k.func,
       level |-> b.level, color |-> b.color, uniform |-> b.uniform, format |-> b.format,
       fullTimestamps |-> b.fullTimestamps, errorPolicy |-> b.errorPolicy]

\* The error one pass of the loop of createLoggerFactory throws.
ParseTargetThrows(target) ==
  CASE target.type = "FILE" ->
         IF createStreamThrows(target.path) THEN "Error: path must be a string"
         ELSE baseTargetOptionsThrows(target)
    [] target.type = "STREAM" ->
         IF target.stream # "WriteStream" THEN "Error: stream must be a WriteStream"
         ELSE baseTargetOptionsThrows(target)
    [] target.type = "FUNCTION" ->
         IF target.function \notin {"returns", "throws"}
           THEN "Error: function must be a Function"
           ELSE baseTargetOptionsThrows(target)
    [] target.type \in {"POST", "STDOUT"} -> baseTargetOptionsThrows(target)
    [] OTHER -> "TypeError: Invalid target type"

\* A pass of the loop that calls createWriteStream: case "FILE", where
\* createStream(target.path, ...) runs before baseTargetOptions(target).
OpensStream(target) == target.type = "FILE" /\ ~createStreamThrows(target.path)

createLoggerFactory(descs) ==
  [i \in 1..Len(descs) |-> ParseTarget(descs[i])]

\* ------------------------------------------------------------ descriptors
\* A descriptor that gives none of the flags; path is the file of a FILE
\* target and stream the sink of a STREAM target, a WriteStream.
Descriptor(type, logLevel, policy, fn) ==
  [type |-> type, logLevel |-> logLevel, errorPolicy |-> policy, function |-> fn,
   https |-> TRUE, style |-> undefined, color |-> FALSE, uniformLength |-> FALSE,
   fullTimestamps |-> FALSE, given |-> {},
   path   |-> IF type = "FILE" THEN "out.log" ELSE undefined,
   stream |-> IF type = "STREAM" THEN "WriteStream" ELSE undefined]

\* The descriptors the factory is created from: the five kinds; each error
\* policy (and the default) on a sink that fails asynchronously and on a
\* callable that throws; every level name and the default as threshold.
Descriptors ==
  { Descriptor("FILE", undefined, "LOG", undefined),
    Descriptor("FILE", "ERROR", "THROW", undefined),
    Descriptor("STREAM", "WARN", undefined, undefined),
    Descriptor("STREAM", "DEBUG", "IGNORE", undefined),
    Descriptor("POST", "FATAL", undefined, undefined),
    Descriptor("STDOUT", undefined, undefined, undefined),
    Descriptor("FUNCTION", "TRACE", "THROW", "returns"),
    Descriptor("FUNCTION", "INFO", "IGNORE", "returns"),
    Descriptor("FUNCTION", undefined, "LOG", "throws"),
    Descriptor("FUNCTION", "WARN", "THROW", "throws"),
    Descriptor("FUNCTION", "FATAL", "IGNORE", "throws") }

TargetLists == {<<a, b>> : a \in Descriptors, b \in Descriptors}

\* ---------------------------------------------------------- source colours
\* A sourceColor argument: null, a string (its characters), a number or an
\* array of numbers.
NoColor == [kind |-> "null", chars |-> << >>, n |-> 0, a |-> << >>]

ColorString(chars) == [kind |-> "string", chars |-> chars, n |-> 0, a |-> << >>]

ColorNumber(n) == [kind |-> "number", chars |-> << >>, n |-> n, a |-> << >>]

ColorArray(a) == [kind |-> "array", chars |-> << >>, n |-> 0, a |-> a]

\* const noColor = v => v; the styling function of a logger is modelled by
\* the hex string chalk.hex() is given, noColor by the empty one.
noColor == << >>

HexChars == <<"0", "1", "2", "3", "4", "5", "6", "7", "8", "9", "a", "b", "c", "d", "e", "f">>

\* [0-9a-fA-F]
HexDigits == {HexChars[k] : k \in 1..16} \cup {"A", "B", "C", "D", "E", "F"}

\* Number.prototype.toString(16) of a non-negative integer
RECURSIVE ToString16(_)
ToString16(n) ==
  IF n < 16 THEN <<HexChars[n + 1]>>
  ELSE Append(ToString16(n \div 16), HexChars[(n % 16) + 1])

\* No padding: the digits as toString(16) gives them.
RECURSIVE padStartNone(_, _, _)
padStartNone(s, len, ch) == s

\* String.prototype.padStart with a one-character filler
RECURSIVE padStart(_, _, _)
padStart(s, len, ch) ==
  IF Len(s) >= len THEN s ELSE padStart(<<ch>> \o s, len, ch)

\* /^[0-9a-fA-F]{6}$/.test(s)
HexRegex(s) == Len(s) = 6 /\ \A k \in 1..Len(s) : s[k] \in HexDigits

\* A string or null value that is truthy: a non-empty string.
Truthy(c) == c.kind = "string" /\ Len(c.chars) > 0

\* The colour validation of createLogger: the error it throws, or the hex
\* string the logger's styling function is made from.
ResolveColor(sourceColor) ==
  LET a         == sourceColor.a
      badArray  == /\ sourceColor.kind = "array"
                   /\ (~(\A k \in 1..Len(a) : a[k] >= 0 /\ a[k] < 256) \/ Len(a) # 3)
      c1        == IF sourceColor.kind = "array" /\ ~badArray
                     THEN ColorNumber(a[1] * 65536 + a[2] * 256 + a[3]) ELSE sourceColor
      badNumber == c1.kind = "number" /\ ~(c1.n >= 0 /\ c1.n < 2 ^ 24)
      c2        == IF c1.kind = "number" /\ ~badNumber
                     THEN ColorString(padStart(ToString16(c1.n), 6, "0")) ELSE c1
      c3        == IF Truthy(c2) /\ c2.chars[1] = "#" THEN ColorString(Tail(c2.chars)) ELSE c2
      badString == Truthy(c3) /\ ~HexRegex(c3.chars)
  IN  IF badArray THEN [error |-> "TypeError", color |-> noColor]
      ELSE IF badNumber \/ badString THEN [error |-> "RangeError", color |-> noColor]
      ELSE [error |-> "none", color |-> IF Truthy(c3) THEN c3.chars ELSE noColor]

\* ------------------------------------------------------------------- state
VARIABLES
  descs,            \* the descriptors createLoggerFactory was given
  opened,           \* the descriptors createLoggerFactory made a file stream for
  parsedTargets,    \* the array createLoggerFactory built (in-flight dispatches hold it)
  targets,          \* LoggerFactory.targets: <<the array>>, or << >> once it is null
  maxSourceLength,  \* LoggerFactory.maxSourceLength
  destroyed,        \* LoggerFactory.destroyed
  streamDestroys,   \* per target: how many times stream.destroy() was called on its sink
  loggers,          \* the Logger objects created so far
  dispatches,       \* the invocations of _log whose promises are alive
  sinkCalls,        \* per target: how many payloads its sink was handed
  sinkOutcomes,     \* per target: the outcomes ("ok", "error") its sink's operations had
  nCalls,           \* level-method calls made so far
  nLogged,          \* those of them that returned a handle
  lastOp            \* the last operation and how it ended

vars == <<descs, opened, parsedTargets, targets, maxSourceLength, destroyed, streamDestroys, loggers,
          dispatches, sinkCalls, sinkOutcomes, nCalls, nLogged, lastOp>>

\* ----------------------------------------------------------------- promises
NoReason == [d |-> 0, t |-> 0]

\* The state of the promise of the async function run for target i of dispatch id.
OpPromise(ds, id, i) ==
  LET st == ds[id].ops[i]
  IN  CASE st = "pending" -> "pending"
        [] st \in {"ok", "ignored", "dropped", "detached"} -> "fulfilled"
        [] st = "thrown" -> "rejected"
        [] st = "relog" -> ds[ds[id].child[i]].state
        [] OTHER -> "none"

\* The error the promise of target i of dispatch id is rejected with: the
\* dispatch and the target whose sink raised it.
OpReason(ds, id, i) ==
  IF ds[id].ops[i] = "relog" THEN ds[ds[id].child[i]].reason ELSE [d |-> id, t |-> i]

\* A join that waits for every operation to settle before it rejects.
PromiseAllSettledFirst(ds, id) ==
  LET d    == ds[id]
      kept == {i \in 1..Len(d.ops) : d.ops[i] # "skipped"}
      rej  == {i \in kept : OpPromise(ds, id, i) = "rejected"}
  IN  IF d.state # "pending" \/ \E i \in kept : OpPromise(ds, id, i) = "pending" THEN ds
      ELSE IF rej # {}
        THEN LET first == CHOOSE i \in rej : \A j \in rej : i <= j
             IN  [ds EXCEPT ![id].state = "rejected", ![id].reason = OpReason(ds, id, first)]
      ELSE [ds EXCEPT ![id].state = "fulfilled"]

\* A join over the operations having succeeded: a failure that is logged or
\* ignored keeps it waiting.
PromiseAllSucceeded(ds, id) ==
  LET d    == ds[id]
      kept == {i \in 1..Len(d.ops) : d.ops[i] # "skipped"}
      rej  == {i \in kept : OpPromise(ds, id, i) = "rejected"}
  IN  IF d.state # "pending" THEN ds
      ELSE IF rej # {}
        THEN LET first == CHOOSE i \in rej : \A j \in rej : i <= j
             IN  [ds EXCEPT ![id].state = "rejected", ![id].reason = OpReason(ds, id, first)]
      ELSE IF \A i \in kept : d.ops[i] = "ok"
        THEN [ds EXCEPT ![id].state = "fulfilled"]
      ELSE ds

\* Promise.all over the promises the map kept (.filter(v => v)): rejected by
\* the first rejection, fulfilled once every promise is fulfilled.
PromiseAll(ds, id) ==
  LET d    == ds[id]
      kept == {i \in 1..Len(d.ops) : d.ops[i] # "skipped"}
      rej  == {i \in kept : OpPromise(ds, id, i) = "rejected"}
  IN  IF d.state # "pending" THEN ds
      ELSE IF rej # {}
        THEN LET first == CHOOSE i \in rej : \A j \in rej : i <= j
             IN  [ds EXCEPT ![id].state = "rejected", ![id].reason = OpReason(ds, id, first)]
      ELSE IF \A i \in kept : OpPromise(ds, id, i) = "fulfilled"
        THEN [ds EXCEPT ![id].state = "fulfilled"]
      ELSE ds

\* The reactions up the chain of dispatches once dispatch id changed.
RECURSIVE PropagateUp(_, _)
PropagateUp(ds, id) ==
  LET ds1 == PromiseAll(ds, id)
  IN  IF ds1[id].parent = 0 THEN ds1 ELSE PropagateUp(ds1, ds1[id].parent)

\* ------------------------------------------------------------------ values
\* The values a level method is given as messages: t is what typeof and
\* the tests for null and undefined tell apart; s is the text of a string
\* and, of a number, null or undefined, what util.inspect prints for it.
Str(s) == [t |-> "string", s |-> s]

Num(n) == [t |-> "number", s |-> ToString(n)]

Undefined == [t |-> "undefined", s |-> "undefined"]

Null == [t |-> "null", s |-> "null"]

\* An object, o its own properties.
Obj(o) == [t |-> "object", o |-> o]

\* ------------------------------------------------------------------- _log
\* A recovery dispatch over the targets as they are.
RecoveryTargetsKeepPolicy(tlist) == tlist

\* targets.map(v => ({ ...v, errorPolicy: "IGNORE" }))
RecoveryTargets(tlist) ==
  [i \in 1..Len(tlist) |-> [tlist[i] EXCEPT !.errorPolicy = "IGNORE"]]

\* The filter with the comparison turned into <=.
SkippedOrEqual(v, level) == v.level <= level

\* if (v.level < level) return;
Skipped(v, level) == v.level < level

\* The recovery event always at ERROR, as in the module's earlier version.
RecoveryLevelError(level) == levelNums.ERROR

\* The recovery event at the rank of the call that failed.
RecoveryLevelUnclamped(level) == level

\* Math.min(level, levelNums.ERROR)
RecoveryLevel(level) == Min(level, levelNums.ERROR)

\* A logger with a destroyed state of its own, which nothing sets.
LoggerOwnDestroyed == FALSE

\* get destroyed() { return this.manager.destroyed; }
LoggerDestroyed == destroyed

\* const timestamp = Date.now(): a clock that has advanced at every reading,
\* by the call and the dispatches the call has made so far.
DateNow(ds, call) ==
  10 * call + Cardinality({k \in 1..Len(ds) : ds[k].call = call})

\* The sink invocations the dispatches of a call have made so far.
Invoked(ds, call) ==
  Cardinality({p \in UNION {{k} \X (1..Len(ds[k].sunk)) : k \in 1..Len(ds)} :
                 ds[p[1]].call = call /\ ds[p[1]].sunk[p[2]] = 1})

\* The error e a sink operation of target i fails with, in the dispatch
\* whose timestamp is ts.
SinkError(ts, i) == [target |-> i, at |-> ts]

\* The first message with the index counted from one.
FailedToLogOneBased(i) == "Failed to log to target " \o ToString(i + 1) \o ":"

\* `Failed to log to target ${i}:`
FailedToLog(i) == "Failed to log to target " \o ToString(i) \o ":"

\* { timestamp, level: levels[level], messages, error: e }
RecoveryPayload(d, e) ==
  [timestamp |-> d.timestamp, level |-> levels[d.level], messages |-> d.messages, error |-> e]

\* The messages of the recovery event for a failure of the target at
\* position i (counted from one here, from zero in the array) of dispatch d.
RecoveryMessages(d, i) ==
  <<Str(FailedToLog(i - 1)), Obj(RecoveryPayload(d, SinkError(d.timestamp, i)))>>

\* One invocation of _log past its destroyed check. at[i] is the place of
\* target i's sink invocation among the invocations of the call.
NewDispatch(parent, ptarget, tlist, messages, timestamp, level, call, depth, logger, maxLen) ==
  [parent |-> parent, ptarget |-> ptarget, targets |-> tlist, level |-> level,
   call |-> call, depth |-> depth, messages |-> messages, timestamp |-> timestamp,
   logger |-> logger, maxSourceLength |-> maxLen,
   ops   |-> [i \in 1..Len(tlist) |-> "init"],
   sunk  |-> [i \in 1..Len(tlist) |-> 0],
   at    |-> [i \in 1..Len(tlist) |-> 0],
   child |-> [i \in 1..Len(tlist) |-> 0],
   state |-> "pending", reason |-> NoReason]

\* st is [ds, sc, sf]: the dispatches, sinkCalls and sinkOutcomes.
RECURSIVE LogDispatch(_, _, _, _, _, _, _, _, _)
RECURSIVE MapTargets(_, _, _)
RECURSIVE Catch(_, _, _)
RECURSIVE CatchDetached(_, _, _)
RECURSIVE MapTargetsUnwrapped(_, _, _)
RECURSIVE CatchUnguarded(_, _, _)

\* A catch block that starts the recovery dispatch without returning its promise.
CatchDetached(st, id, i) ==
  LET d == st.ds[id]
      v == d.targets[i]
  IN  CASE v.errorPolicy = "THROW" ->
             [st EXCEPT !.ds[id].ops[i] = "thrown"]
        [] v.errorPolicy = "LOG" ->
             IF ~LoggerDestroyed /\ Len(st.ds) < MaxDispatches
               THEN LET cid == Len(st.ds) + 1
                        st1 == [st EXCEPT !.ds[id].ops[i] = "detached", !.ds[id].child[i] = cid]
                    IN  LogDispatch(st1, id, i, RecoveryTargets(d.targets),
                                    RecoveryMessages(d, i), RecoveryLevel(d.level), d.call,
                                    d.logger, d.maxSourceLength)
               ELSE [st EXCEPT !.ds[id].ops[i] = "dropped"]
        [] OTHER ->
             [st EXCEPT !.ds[id].ops[i] = "ignored"]

\* A catch block that calls _log without looking at logger.destroyed: on a
\* destroyed factory _log throws, and the operation's promise is rejected.
CatchUnguarded(st, id, i) ==
  LET d == st.ds[id]
      v == d.targets[i]
  IN  CASE v.errorPolicy = "THROW" ->
             [st EXCEPT !.ds[id].ops[i] = "thrown"]
        [] v.errorPolicy = "LOG" ->
             IF LoggerDestroyed THEN [st EXCEPT !.ds[id].ops[i] = "thrown"]
             ELSE IF Len(st.ds) < MaxDispatches
               THEN LET cid == Len(st.ds) + 1
                        st1 == [st EXCEPT !.ds[id].ops[i] = "relog", !.ds[id].child[i] = cid]
                    IN  LogDispatch(st1, id, i, RecoveryTargets(d.targets),
                                    RecoveryMessages(d, i), RecoveryLevel(d.level), d.call,
                                    d.logger, d.maxSourceLength)
               ELSE [st EXCEPT !.ds[id].ops[i] = "dropped"]
        [] OTHER ->
             [st EXCEPT !.ds[id].ops[i] = "ignored"]

\* The catch block of the async function of target i in dispatch id.
Catch(st, id, i) ==
  LET d == st.ds[id]
      v == d.targets[i]
  IN  CASE v.errorPolicy = "THROW" ->
             [st EXCEPT !.ds[id].ops[i] = "thrown"]
        [] v.errorPolicy = "LOG" ->
             IF ~LoggerDestroyed /\ Len(st.ds) < MaxDispatches
               THEN LET cid == Len(st.ds) + 1
                        st1 == [st EXCEPT !.ds[id].ops[i] = "relog", !.ds[id].child[i] = cid]
                    IN  LogDispatch(st1, id, i, RecoveryTargets(d.targets),
                                    RecoveryMessages(d, i), RecoveryLevel(d.level), d.call,
                                    d.logger, d.maxSourceLength)
               ELSE [st EXCEPT !.ds[id].ops[i] = "dropped"]
        [] OTHER ->
             [st EXCEPT !.ds[id].ops[i] = "ignored"]

\* A map whose callback is not an async function: what the catch block
\* rethrows leaves the map, and the targets after it are not looked at.
MapTargetsUnwrapped(st, id, i) ==
  LET d == st.ds[id]
  IN  IF i > Len(d.targets) THEN st
      ELSE LET v == d.targets[i]
           IN  IF Skipped(v, d.level)
                 THEN MapTargets([st EXCEPT !.ds[id].ops[i] = "skipped"], id, i + 1)
                 ELSE LET st1 == [st EXCEPT !.sc[i] = @ + 1, !.ds[id].sunk[i] = @ + 1,
                                            !.ds[id].at[i] = Invoked(st.ds, d.call) + 1]
                          st2 == IF v.type = "FUNCTION" /\ v.func = "throws"
                                   THEN Catch([st1 EXCEPT !.sf[i] = @ \cup {"error"}], id, i)
                                   ELSE [st1 EXCEPT !.ds[id].ops[i] = "pending"]
                      IN  IF st2.ds[id].ops[i] = "thrown"
                            THEN [st2 EXCEPT !.ds[id].ops =
                                    [j \in 1..Len(d.targets) |-> IF j > i THEN "skipped" ELSE @[j]]]
                            ELSE MapTargets(st2, id, i + 1)

\* A map that calls the callable outside the try block: what it throws
\* rejects the operation's promise whatever the target's policy is.
MapTargetsSyncUncaught(st, id, i) ==
  LET d == st.ds[id]
  IN  IF i > Len(d.targets) THEN st
      ELSE LET v == d.targets[i]
           IN  IF Skipped(v, d.level)
                 THEN MapTargets([st EXCEPT !.ds[id].ops[i] = "skipped"], id, i + 1)
                 ELSE LET st1 == [st EXCEPT !.sc[i] = @ + 1, !.ds[id].sunk[i] = @ + 1,
                                            !.ds[id].at[i] = Invoked(st.ds, d.call) + 1]
                          st2 == IF v.type = "FUNCTION" /\ v.func = "throws"
                                   THEN [st1 EXCEPT !.sf[i] = @ \cup {"error"},
                                                    !.ds[id].ops[i] = "thrown"]
                                   ELSE [st1 EXCEPT !.ds[id].ops[i] = "pending"]
                      IN  MapTargets(st2, id, i + 1)

\* targets.map((v, i) => ...): the targets from position i on, in order. A
\* callable that throws is caught before the next target is looked at.
MapTargets(st, id, i) ==
  LET d == st.ds[id]
  IN  IF i > Len(d.targets) THEN st
      ELSE LET v == d.targets[i]
           IN  IF Skipped(v, d.level)
                 THEN MapTargets([st EXCEPT !.ds[id].ops[i] = "skipped"], id, i + 1)
                 ELSE LET st1 == [st EXCEPT !.sc[i] = @ + 1, !.ds[id].sunk[i] = @ + 1,
                                            !.ds[id].at[i] = Invoked(st.ds, d.call) + 1]
                          st2 == IF v.type = "FUNCTION" /\ v.func = "throws"
                                   THEN Catch([st1 EXCEPT !.sf[i] = @ \cup {"error"}], id, i)
                                   ELSE [st1 EXCEPT !.ds[id].ops[i] = "pending"]
                      IN  MapTargets(st2, id, i + 1)

\* _log past its destroyed check: a new dispatch, every target's operation
\* initiated, and the promise Promise.all returns.
LogDispatch(st, parent, ptarget, tlist, messages, level, call, logger, maxLen) ==
  LET id  == Len(st.ds) + 1
      nd  == NewDispatch(parent, ptarget, tlist, messages, DateNow(st.ds, call), level, call,
                         IF parent = 0 THEN 0 ELSE st.ds[parent].depth + 1, logger, maxLen)
      st1 == [st EXCEPT !.ds = Append(@, nd)]
      st2 == MapTargets(st1, id, 1)
  IN  [st2 EXCEPT !.ds = PromiseAll(@, id)]

\* --------------------------------------------------------------- operations
Components == {"svc"}

\* The messages the caller gives the level method in its c-th call.
Messages(c) == <<Str("call " \o ToString(c))>>

Sources == {undefined}

\* component.length + 1 + (source?.length ?? -1)
SourceLength(component, source) ==
  Len(component) + 1 + (IF source = undefined THEN -1 ELSE Len(source))

\* The name format() renders: component + (source ? "/" + source : "")
DisplayName(component, source) ==
  IF source # undefined /\ source # "" THEN component \o "/" \o source ELSE component

Pending(ds) ==
  {id \in 1..Len(ds) : \E i \in 1..Len(ds[id].ops) : ds[id].ops[i] = "pending"}

\* The calls that still have a sink operation pending.
InFlight(ds) == {ds[id].call : id \in Pending(ds)}

\* The dispatches of the calls that still have an operation pending, renumbered.
Compact(ds) ==
  LET keep    == {id \in 1..Len(ds) : ds[id].call \in InFlight(ds)}
      new(id) == IF id = 0 THEN 0 ELSE Cardinality({k \in keep : k <= id})
  IN  [n \in 1..Cardinality(keep) |->
         LET d == ds[CHOOSE k \in keep : new(k) = n]
         IN  [d EXCEPT !.parent = new(d.parent),
                       !.child  = [i \in 1..Len(d.child) |-> new(d.child[i])],
                       !.reason = [d |-> new(d.reason.d), t |-> d.reason.t]]]

\* The record of an operation: pre is the destroyed flag it found; disp and
\* target name the sink operation a settlement is of, color the sourceColor
\* createLogger was given and length the sourceLength of the name it was given.
Op(op, error, level) ==
  [op |-> op, error |-> error, level |-> level, pre |-> destroyed,
   disp |-> 0, target |-> 0, color |-> NoColor, length |-> 0]

Init ==
  /\ descs \in TargetLists
  /\ opened = {i \in 1..Len(descs) : OpensStream(descs[i])}
  /\ parsedTargets = createLoggerFactory(descs)
  /\ targets = <<parsedTargets>>
  /\ maxSourceLength = 0
  /\ destroyed = FALSE
  /\ streamDestroys = [i \in 1..Len(descs) |-> 0]
  /\ loggers = << >>
  /\ dispatches = << >>
  /\ sinkCalls = [i \in 1..Len(descs) |-> 0]
  /\ sinkOutcomes = [i \in 1..Len(descs) |-> {}]
  /\ nCalls = 0
  /\ nLogged = 0
  /\ lastOp = [op |-> "createLoggerFactory", error |-> NoError, level |-> 0, pre |-> FALSE,
               disp |-> 0, target |-> 0, color |-> NoColor, length |-> 0]

\* createLogger without the check of the destroyed flag.
createLoggerUnchecked(component, source, sourceColor) ==
  LET color == ResolveColor(sourceColor)
  IN  /\ IF color.error # NoError
           THEN /\ lastOp' = [Op("createLogger", color.error, 0) EXCEPT !.color = sourceColor,
                         !.length = SourceLength(component, source)]
                /\ UNCHANGED <<maxSourceLength, loggers>>
           ELSE /\ maxSourceLength' =
                     IF SourceLength(component, source) > maxSourceLength
                       THEN SourceLength(component, source) ELSE maxSourceLength
                /\ loggers' = Append(loggers, [component |-> component, source |-> source,
                                               color |-> color.color])
                /\ lastOp' = [Op("createLogger", NoError, 0) EXCEPT !.color = sourceColor,
                         !.length = SourceLength(component, source)]
      /\ UNCHANGED <<descs, opened, parsedTargets, targets, destroyed, streamDestroys, dispatches,
                     sinkCalls, sinkOutcomes, nCalls, nLogged>>

\* createLogger that stores the new logger's length whatever the maximum was.
createLoggerOverwrite(component, source, sourceColor) ==
  LET color == ResolveColor(sourceColor)
  IN  /\ IF destroyed
           THEN /\ lastOp' = [Op("createLogger", "LoggerFacotry has been destroyed", 0)
                                EXCEPT !.color = sourceColor,
                         !.length = SourceLength(component, source)]
                /\ UNCHANGED <<maxSourceLength, loggers>>
           ELSE IF color.error # NoError
             THEN /\ lastOp' = [Op("createLogger", color.error, 0) EXCEPT !.color = sourceColor,
                         !.length = SourceLength(component, source)]
                  /\ UNCHANGED <<maxSourceLength, loggers>>
             ELSE /\ maxSourceLength' = SourceLength(component, source)
                  /\ loggers' = Append(loggers, [component |-> component, source |-> source,
                                                 color |-> color.color])
                  /\ lastOp' = [Op("createLogger", NoError, 0) EXCEPT !.color = sourceColor,
                         !.length = SourceLength(component, source)]
      /\ UNCHANGED <<descs, opened, parsedTargets, targets, destroyed, streamDestroys, dispatches,
                     sinkCalls, sinkOutcomes, nCalls, nLogged>>

\* createLogger that records the name's length before it validates the colour.
createLoggerLengthFirst(component, source, sourceColor) ==
  LET color == ResolveColor(sourceColor)
      len   == SourceLength(component, source)
  IN  /\ IF destroyed
           THEN /\ lastOp' = [Op("createLogger", "LoggerFacotry has been destroyed", 0)
                                EXCEPT !.color = sourceColor, !.length = len]
                /\ UNCHANGED <<maxSourceLength, loggers>>
           ELSE /\ maxSourceLength' = IF len > maxSourceLength THEN len ELSE maxSourceLength
                /\ IF color.error # NoError
                     THEN /\ lastOp' = [Op("createLogger", color.error, 0)
                                          EXCEPT !.color = sourceColor, !.length = len]
                          /\ UNCHANGED loggers
                     ELSE /\ loggers' = Append(loggers, [component |-> component,
                                                         source |-> source,
                                                         color |-> color.color])
                          /\ lastOp' = [Op("createLogger", NoError, 0)
                                          EXCEPT !.color = sourceColor, !.length = len]
      /\ UNCHANGED <<descs, opened, parsedTargets, targets, destroyed, streamDestroys, dispatches,
                     sinkCalls, sinkOutcomes, nCalls, nLogged>>

\* LoggerFactory.createLogger(component, source, sourceColor)
createLogger(component, source, sourceColor) ==
  LET color == ResolveColor(sourceColor)
  IN  /\ IF destroyed
           THEN /\ lastOp' = [Op("createLogger", "LoggerFacotry has been destroyed", 0)
                                EXCEPT !.color = sourceColor,
                         !.length = SourceLength(component, source)]
                /\ UNCHANGED <<maxSourceLength, loggers>>
           ELSE IF color.error # NoError
             THEN /\ lastOp' = [Op("createLogger", color.error, 0) EXCEPT !.color = sourceColor,
                         !.length = SourceLength(component, source)]
                  /\ UNCHANGED <<maxSourceLength, loggers>>
             ELSE /\ maxSourceLength' =
                       IF SourceLength(component, source) > maxSourceLength
                         THEN SourceLength(component, source) ELSE maxSourceLength
                  /\ loggers' = Append(loggers, [component |-> component, source |-> source,
                                                 color |-> color.color])
                  /\ lastOp' = [Op("createLogger", NoError, 0) EXCEPT !.color = sourceColor,
                         !.length = SourceLength(component, source)]
      /\ UNCHANGED <<descs, opened, parsedTargets, targets, destroyed, streamDestroys, dispatches,
                     sinkCalls, sinkOutcomes, nCalls, nLogged>>

\* destroy() as it was before the guard and the private flag: every call
\* runs, on every STREAM target.
destroyUnguarded ==
  IF targets = << >>
    THEN /\ lastOp' = Op("destroy", "TypeError", 0)
         /\ destroyed' = TRUE
         /\ UNCHANGED <<descs, opened, parsedTargets, targets, maxSourceLength, streamDestroys, loggers,
                        dispatches, sinkCalls, sinkOutcomes, nCalls, nLogged>>
    ELSE /\ lastOp' = Op("destroy", NoError, 0)
         /\ destroyed' = TRUE
         /\ streamDestroys' =
              [i \in 1..Len(targets[1]) |->
                 IF targets[1][i].type = "STREAM" THEN streamDestroys[i] + 1 ELSE streamDestroys[i]]
         /\ targets' = << >>
         /\ UNCHANGED <<descs, opened, parsedTargets, maxSourceLength, loggers, dispatches,
                        sinkCalls, sinkOutcomes, nCalls, nLogged>>

\* destroy() that sets the flag and keeps the reference to the target list.
destroyKeepTargets ==
  /\ lastOp' = Op("destroy", NoError, 0)
  /\ IF destroyed
       THEN UNCHANGED <<destroyed, streamDestroys>>
       ELSE /\ destroyed' = TRUE
            /\ streamDestroys' =
                 [i \in 1..Len(targets[1]) |->
                    IF targets[1][i].type = "STREAM" /\ targets[1][i].private = TRUE
                      THEN streamDestroys[i] + 1 ELSE streamDestroys[i]]
  /\ UNCHANGED <<descs, opened, parsedTargets, targets, maxSourceLength, loggers, dispatches,
                 sinkCalls, sinkOutcomes, nCalls, nLogged>>

\* LoggerFactory.destroy()
destroy ==
  /\ lastOp' = Op("destroy", NoError, 0)
  /\ IF destroyed
       THEN UNCHANGED <<destroyed, streamDestroys, targets>>
       ELSE /\ destroyed' = TRUE
            /\ streamDestroys' =
                 [i \in 1..Len(targets[1]) |->
                    IF targets[1][i].type = "STREAM" /\ targets[1][i].private = TRUE
                      THEN streamDestroys[i] + 1 ELSE streamDestroys[i]]
            /\ targets' = << >>
  /\ UNCHANGED <<descs, opened, parsedTargets, maxSourceLength, loggers, dispatches,
                 sinkCalls, sinkOutcomes, nCalls, nLogged>>

\* A width fixed when the logger was created: the longest name until then.
CallWidthFrozen(lg) ==
  LET lens == {SourceLength(loggers[k].component, loggers[k].source) : k \in 1..lg}
  IN  CHOOSE m \in lens : \A n \in lens : n <= m

\* this.manager.maxSourceLength, as a level method of logger lg reads it
CallWidth(lg) == maxSourceLength

\* logger.trace / debug / info / warn / error / fatal: _log(this.manager.targets,
\* messages, <the method's rank>, this, this.manager.maxSourceLength).
\* The dispatches of the calls that have nothing pending are dropped here
\* (Compact): their promises are settled for good. MaxInFlight bounds the
\* calls that start a dispatch, not those a destroyed factory turns down.
LogCall(lg, level, messages) ==
  /\ nCalls < MaxCalls
  /\ targets = << >> \/ Cardinality(InFlight(dispatches)) < MaxInFlight
  /\ lg \in 1..Len(loggers)
  /\ nCalls' = nCalls + 1
  /\ IF LoggerDestroyed
       THEN /\ lastOp' = Op("log", "Logger has been destroyed", level)
            /\ UNCHANGED <<dispatches, sinkCalls, sinkOutcomes, nLogged>>
       ELSE IF targets = << >>
         THEN /\ lastOp' = Op("log", "TypeError", level)
              /\ UNCHANGED <<dispatches, sinkCalls, sinkOutcomes, nLogged>>
         ELSE LET st == LogDispatch([ds |-> Compact(dispatches), sc |-> sinkCalls,
                                     sf |-> sinkOutcomes],
                                    0, 0, targets[1], messages, level, nCalls + 1,
                                    lg, CallWidth(lg))
              IN  /\ dispatches' = st.ds
                  /\ sinkCalls' = st.sc
                  /\ sinkOutcomes' = st.sf
                  /\ nLogged' = nLogged + 1
                  /\ lastOp' = Op("log", NoError, level)
  /\ UNCHANGED <<descs, opened, parsedTargets, targets, maxSourceLength, destroyed, streamDestroys, loggers>>

\* How a sink operation ends: the sink took the payload ("ok"), the sink
\* failed ("error"), or the write was still pending when the stream was
\* destroyed and its callback gets ERR_STREAM_DESTROYED ("destroyed").
Outcomes == {"ok", "error", "destroyed"}

\* A catch block that forces the policy in place, on the target objects the
\* factory holds (targets.forEach(v => v.errorPolicy = "IGNORE")), instead
\* of on copies of them.
SettleForcing(id, i, outcome) ==
  /\ id \in 1..Len(dispatches)
  /\ i \in 1..Len(dispatches[id].ops)
  /\ dispatches[id].ops[i] = "pending"
  /\ outcome = "destroyed" => (dispatches[id].targets[i].type = "STREAM" /\ streamDestroys[i] > 0)
  /\ LET st0 == [ds |-> dispatches, sc |-> sinkCalls, sf |-> sinkOutcomes]
         st1 == IF outcome = "ok"
                  THEN [st0 EXCEPT !.ds[id].ops[i] = "ok", !.sf[i] = @ \cup {"ok"}]
                  ELSE Catch([st0 EXCEPT !.sf[i] = @ \cup {outcome}], id, i)
     IN  /\ dispatches' = PropagateUp(st1.ds, id)
         /\ sinkCalls' = st1.sc
         /\ sinkOutcomes' = st1.sf
         /\ IF Len(st1.ds) > Len(dispatches)
              THEN /\ parsedTargets' = RecoveryTargets(parsedTargets)
                   /\ targets' = [k \in 1..Len(targets) |-> RecoveryTargets(targets[k])]
              ELSE UNCHANGED <<parsedTargets, targets>>
  /\ lastOp' = [Op("settle", NoError, 0) EXCEPT !.disp = id, !.target = i]
  /\ UNCHANGED <<descs, opened, maxSourceLength, destroyed, streamDestroys,
                 loggers, nCalls, nLogged>>

\* The sink operation of target i in dispatch id settles: the write's
\* callback, the callable's promise, or the request's response or error.
\* A write to a stream that stream.destroy() was called on may still have
\* drained, may fail by itself, or fails with ERR_STREAM_DESTROYED.
Settle(id, i, outcome) ==
  /\ id \in 1..Len(dispatches)
  /\ i \in 1..Len(dispatches[id].ops)
  /\ dispatches[id].ops[i] = "pending"
  /\ outcome = "destroyed" => (dispatches[id].targets[i].type = "STREAM" /\ streamDestroys[i] > 0)
  /\ LET st0 == [ds |-> dispatches, sc |-> sinkCalls, sf |-> sinkOutcomes]
         st1 == IF outcome = "ok"
                  THEN [st0 EXCEPT !.ds[id].ops[i] = "ok", !.sf[i] = @ \cup {"ok"}]
                  ELSE Catch([st0 EXCEPT !.sf[i] = @ \cup {outcome}], id, i)
     IN  /\ dispatches' = PropagateUp(st1.ds, id)
         /\ sinkCalls' = st1.sc
         /\ sinkOutcomes' = st1.sf
  /\ lastOp' = [Op("settle", NoError, 0) EXCEPT !.disp = id, !.target = i]
  /\ UNCHANGED <<descs, opened, parsedTargets, targets, maxSourceLength, destroyed, streamDestroys,
                 loggers, nCalls, nLogged>>

Next ==
  \/ \E c \in Components, s \in Sources :
       Len(loggers) < MaxLoggers /\ createLogger(c, s, NoColor)
  \/ destroy
  \/ \E lg \in 1..MaxLoggers, level \in Ranks :
       LogCall(lg, level, Messages(nCalls + 1))
  \/ \E id \in 1..MaxDispatches, i \in 1..Len(descs), outcome \in Outcomes :
       Settle(id, i, outcome)

Spec == Init /\ [][Next]_vars

\* ------------------------------------------------------- sinks that answer
\* The factory's sinks settle every operation they are given: the write's
\* callback is called, the callable's promise settles, the request gets its
\* response or its error. No operation stays pending for ever: a settlement
\* of it is enabled as long as it is pending, and any settlement of it, with
\* whatever outcome, ends that.
LiveTargetLists ==
  { <<Descriptor("STREAM", "WARN", undefined, undefined),
      Descriptor("FUNCTION", "TRACE", "THROW", "returns")>>,
    <<Descriptor("FILE", undefined, "LOG", undefined),
      Descriptor("FUNCTION", undefined, "LOG", "throws")>>,
    <<Descriptor("POST", "FATAL", undefined, undefined),
      Descriptor("STREAM", "DEBUG", "IGNORE", undefined)>> }

LiveInit == Init /\ descs \in LiveTargetLists

LiveSpec ==
  /\ LiveInit /\ [][Next]_vars
  /\ \A id \in 1..MaxDispatches, i \in 1..2 : WF_vars(Settle(id, i, "ok"))

\* ------------------------------------------------------- callable targets
\* Factories of two FUNCTION targets: each error policy on a callable that
\* returns (what it returns is awaited and is fulfilled or rejected later)
\* and on a callable that throws.
CallbackDescriptors ==
  {Descriptor("FUNCTION", undefined, policy, fn) :
     policy \in {"THROW", "LOG", "IGNORE"}, fn \in {"returns", "throws"}}

CallbackLists == {<<a, b>> : a \in CallbackDescriptors, b \in CallbackDescriptors}

CallbackInit ==
  /\ descs \in CallbackLists
  /\ opened = {i \in 1..Len(descs) : OpensStream(descs[i])}
  /\ parsedTargets = createLoggerFactory(descs)
  /\ targets = <<parsedTargets>>
  /\ maxSourceLength = 0
  /\ destroyed = FALSE
  /\ streamDestroys = [i \in 1..Len(descs) |-> 0]
  /\ loggers = << >>
  /\ dispatches = << >>
  /\ sinkCalls = [i \in 1..Len(descs) |-> 0]
  /\ sinkOutcomes = [i \in 1..Len(descs) |-> {}]
  /\ nCalls = 0
  /\ nLogged = 0
  /\ lastOp = [op |-> "createLoggerFactory", error |-> NoError, level |-> 0, pre |-> FALSE,
               disp |-> 0, target |-> 0, color |-> NoColor, length |-> 0]

CallbackSpec == CallbackInit /\ [][Next]_vars

\* ------------------------------------------------- loggers of varying names
\* The factory with one file target; createLogger is given components and
\* sources of several lengths (no source, the empty one) and a sourceColor
\* that is absent, valid, invalid or empty once its "#" is stripped.
NameTargetLists == {<<Descriptor("FILE", undefined, "LOG", undefined)>>}

NameComponents == {"svc", "svc2"}

NameSources == {undefined, "", "db"}

NameRanks == {levelNums.ERROR, levelNums.TRACE}

NameColors ==
  {NoColor, ColorNumber(65535), ColorArray(<<255, 0>>), ColorString(<<"#">>)}

\* sourceColor arguments of every form, valid and not.
ColorSpecs ==
  { NoColor,
    ColorString(<<"#", "F", "F", "F", "F", "0", "0">>),
    ColorString(<<"8", "8", "8", "8", "0", "0">>),
    ColorString(<<"#", "F", "F", "F", "F", "0">>),
    ColorString(<<"#", "F", "F", "F", "F", "0", "0", "0">>),
    ColorString(<<"#", "1", "2", "3", "4", "5", "G">>),
    ColorString(<<"#">>),
    ColorString(<< >>),
    ColorNumber(65535),
    ColorNumber(16777215),
    ColorNumber(16777216),
    ColorNumber(-1),
    ColorArray(<<255, 0, 206>>),
    ColorArray(<<256, 0, 206>>),
    ColorArray(<<0, -1, 0>>),
    ColorArray(<<255, 0>>),
    ColorArray(<<0, 0, 0, 0>>) }

NameInit ==
  /\ descs \in NameTargetLists
  /\ opened = {i \in 1..Len(descs) : OpensStream(descs[i])}
  /\ parsedTargets = createLoggerFactory(descs)
  /\ targets = <<parsedTargets>>
  /\ maxSourceLength = 0
  /\ destroyed = FALSE
  /\ streamDestroys = [i \in 1..Len(descs) |-> 0]
  /\ loggers = << >>
  /\ dispatches = << >>
  /\ sinkCalls = [i \in 1..Len(descs) |-> 0]
  /\ sinkOutcomes = [i \in 1..Len(descs) |-> {}]
  /\ nCalls = 0
  /\ nLogged = 0
  /\ lastOp = [op |-> "createLoggerFactory", error |-> NoError, level |-> 0, pre |-> FALSE,
               disp |-> 0, target |-> 0, color |-> NoColor, length |-> 0]

NameNext ==
  \/ \E c \in NameComponents, s \in NameSources, col \in NameColors :
       Len(loggers) < MaxNamedLoggers /\ createLogger(c, s, col)
  \/ destroy
  \/ \E lg \in 1..MaxNamedLoggers, level \in NameRanks :
       LogCall(lg, level, Messages(nCalls + 1))
  \/ \E id \in 1..MaxDispatches, i \in 1..Len(descs), outcome \in Outcomes :
       Settle(id, i, outcome)

NameSpec == NameInit /\ [][NameNext]_vars

\* --------------------------------------------------- colours of the loggers
\* Colours in their three forms: the array, the packed number r*65536 +
\* g*256 + b and the six hex digits of that number.
ColorTable ==
  { [rgb |-> <<255, 0, 206>>,   n |-> 16711886, hex |-> <<"f", "f", "0", "0", "c", "e">>],
    [rgb |-> <<0, 255, 255>>,   n |-> 65535,    hex |-> <<"0", "0", "f", "f", "f", "f">>],
    [rgb |-> <<0, 0, 0>>,       n |-> 0,        hex |-> <<"0", "0", "0", "0", "0", "0">>],
    [rgb |-> <<255, 255, 255>>, n |-> 16777215, hex |-> <<"f", "f", "f", "f", "f", "f">>],
    [rgb |-> <<1, 2, 3>>,       n |-> 66051,    hex |-> <<"0", "1", "0", "2", "0", "3">>] }

\* The sourceColor arguments that give the colour e.
FormsOf(e) ==
  {ColorArray(e.rgb), ColorNumber(e.n), ColorString(e.hex), ColorString(<<"#">> \o e.hex)}

ColorForms == UNION {FormsOf(e) : e \in ColorTable}

\* The factory of NameInit; createLogger is given one name and a sourceColor
\* of every form.
ResolveNext ==
  \/ \E col \in ColorSpecs \cup ColorForms :
       Len(loggers) < MaxNamedLoggers /\ createLogger("svc", undefined, col)
  \/ destroy

ResolveSpec == NameInit /\ [][ResolveNext]_vars

\* ------------------------------------------------------ creating the factory
\* Descriptors that are valid, with the shared fields given or left out, ...
Full(type, fn) ==
  [Descriptor(type, "WARN", "THROW", fn) EXCEPT
     !.style = "JSON", !.color = TRUE, !.uniformLength = TRUE, !.fullTimestamps = TRUE,
     !.given = {"color", "uniformLength", "fullTimestamps"}]

ValidDescriptors ==
  { Descriptor("FILE", undefined, undefined, undefined),
    Descriptor("STREAM", undefined, undefined, undefined),
    Descriptor("POST", undefined, undefined, undefined),
    Descriptor("STDOUT", undefined, undefined, undefined),
    Descriptor("FUNCTION", undefined, undefined, "returns"),
    Full("FILE", undefined),
    Full("POST", undefined),
    [Full("STREAM", undefined) EXCEPT !.style = "TEXT", !.errorPolicy = "IGNORE",
                                      !.color = FALSE, !.logLevel = "FATAL"],
    [Full("FUNCTION", "returns") EXCEPT !.errorPolicy = "LOG", !.uniformLength = FALSE,
                                        !.logLevel = "TRACE"],
    [Full("STDOUT", undefined) EXCEPT !.fullTimestamps = FALSE, !.logLevel = "DEBUG"] }

\* ... and descriptors with one field that is not what the module documents.
InvalidDescriptors ==
  { Descriptor("BOGUS", undefined, undefined, undefined),
    Descriptor("STDOUT", "VERBOSE", undefined, undefined),
    Descriptor("STDOUT", "constructor", undefined, undefined),
    Descriptor("POST", "", undefined, undefined),
    [Descriptor("STDOUT", undefined, undefined, undefined) EXCEPT !.style = "XML"],
    Descriptor("POST", undefined, "RETRY", undefined),
    [Descriptor("STREAM", undefined, undefined, undefined) EXCEPT !.stream = "Writable"],
    Descriptor("FUNCTION", undefined, undefined, "not callable"),
    Descriptor("FUNCTION", undefined, undefined, undefined),
    [Descriptor("FILE", undefined, undefined, undefined) EXCEPT !.path = undefined],
    [Descriptor("FILE", undefined, undefined, undefined) EXCEPT !.style = "XML"],
    Descriptor("FILE", "VERBOSE", undefined, undefined) }

FactoryDescriptors == ValidDescriptors \cup InvalidDescriptors

FactoryLists ==
  {<<a>> : a \in FactoryDescriptors}
    \cup {<<a, b>> : a \in FactoryDescriptors, b \in FactoryDescriptors}

\* Before createLoggerFactory is called.
FactoryInit ==
  /\ descs = << >>
  /\ opened = {}
  /\ parsedTargets = << >>
  /\ targets = << >>
  /\ maxSourceLength = 0
  /\ destroyed = FALSE
  /\ streamDestroys = << >>
  /\ loggers = << >>
  /\ dispatches = << >>
  /\ sinkCalls = << >>
  /\ sinkOutcomes = << >>
  /\ nCalls = 0
  /\ nLogged = 0
  /\ lastOp = [op |-> "none", error |-> NoError, level |-> 0, pre |-> FALSE,
               disp |-> 0, target |-> 0, color |-> NoColor, length |-> 0]

\* createLoggerFactory(list): the loop over the descriptors stops at the
\* first one that throws; the streams made until then stay as they are.
\* lastOp.target is the position of the descriptor that threw.
CreateFactory(list) ==
  LET bad     == {i \in 1..Len(list) : ParseTargetThrows(list[i]) # NoError}
      first   == IF bad = {} THEN 0 ELSE CHOOSE i \in bad : \A j \in bad : i <= j
      reached == IF first = 0 THEN 1..Len(list) ELSE 1..first
  IN  /\ descs = << >>
      /\ descs' = list
      /\ opened' = {i \in reached : OpensStream(list[i])}
      /\ IF first = 0
           THEN /\ parsedTargets' = createLoggerFactory(list)
                /\ targets' = <<createLoggerFactory(list)>>
                /\ lastOp' = Op("createLoggerFactory", NoError, 0)
           ELSE /\ parsedTargets' = << >>
                /\ targets' = << >>
                /\ lastOp' = [Op("createLoggerFactory", ParseTargetThrows(list[first]), 0)
                                EXCEPT !.target = first]
      /\ streamDestroys' = [i \in 1..Len(list) |-> 0]
      /\ sinkCalls' = [i \in 1..Len(list) |-> 0]
      /\ sinkOutcomes' = [i \in 1..Len(list) |-> {}]
      /\ UNCHANGED <<maxSourceLength, destroyed, loggers, dispatches, nCalls, nLogged>>

\* The factory, once there is one, is destroyed.
FactoryNext ==
  \/ \E list \in FactoryLists : CreateFactory(list)
  \/ parsedTargets # << >> /\ destroy

FactorySpec == FactoryInit /\ [][FactoryNext]_vars

\* ------------------------------------------------------------------ format
\* A text is the sequence of its pieces; a newline is a piece of its own.
Newline == "\n"

\* The pieces of a string: the strings of the model that hold a newline
\* are listed, every other string is one piece.
Pieces(s) ==
  CASE s = "a\nb" -> <<"a", Newline, "b">>
    [] s = "line 1\nline 2" -> <<"line 1", Newline, "line 2">>
    [] s = "one\n" -> <<"one", Newline>>
    [] OTHER -> <<s>>

\* A string as util.inspect quotes it inside an object: newlines escaped.
Quoted(s) ==
  CASE s = "line 1\nline 2" -> "'line 1\\nline 2'"
    [] s = "one\n" -> "'one\\n'"
    [] OTHER -> "'" \o s \o "'"

\* String.prototype.length of a text
RECURSIVE TextLen(_)
TextLen(text) == IF text = << >> THEN 0 ELSE Len(Head(text)) + TextLen(Tail(text))

\* Array.prototype.join(sep) of texts
RECURSIVE Join(_, _)
Join(texts, sep) ==
  IF Len(texts) = 0 THEN << >>
  ELSE IF Len(texts) = 1 THEN texts[1]
  ELSE texts[1] \o sep \o Join(Tail(texts), sep)

\* String.prototype.split("\n"): the lines of a text
RECURSIVE Split(_)
Split(text) ==
  IF \A k \in 1..Len(text) : text[k] # Newline THEN <<text>>
  ELSE LET k == CHOOSE k \in 1..Len(text) :
                  text[k] = Newline /\ \A j \in 1..(k - 1) : text[j] # Newline
       IN  <<SubSeq(text, 1, k - 1)>> \o Split(SubSeq(text, k + 1, Len(text)))

\* "".padEnd(n)
RECURSIVE Spaces(_)
Spaces(n) == IF n <= 0 THEN "" ELSE " " \o Spaces(n - 1)

\* String.prototype.padEnd(n) of a text
padEnd(text, n) ==
  IF TextLen(text) >= n THEN text ELSE text \o <<Spaces(n - TextLen(text))>>

\* n.toString().padStart(len, "0")
RECURSIVE padStartZero(_, _)
padStartZero(str, len) == IF Len(str) >= len THEN str ELSE padStartZero("0" \o str, len)

\* formatTime(ms, full), for the times of the first day of the epoch
formatTime(ms, full) ==
  LET clock == padStartZero(ToString((ms \div 3600000) % 24), 2) \o ":"
                 \o padStartZero(ToString((ms \div 60000) % 60), 2) \o ":"
                 \o padStartZero(ToString((ms \div 1000) % 60), 2) \o "."
                 \o padStartZero(ToString(ms % 1000), 3)
  IN  IF full THEN "1970-01-01T" \o clock \o "Z" ELSE clock

\* A chalk style applied to a text, on a terminal that has colours: the
\* style's codes around every line of the text, the empty text as it is.
Chalk(style, text) ==
  IF TextLen(text) = 0 THEN text
  ELSE Join([k \in 1..Len(Split(text)) |->
               <<"<" \o style \o ">">> \o Split(text)[k] \o <<"</" \o style \o ">">>],
            <<Newline>>)

\* The hex string of a logger's colour as one string.
RECURSIVE Concat(_)
Concat(chars) == IF chars = << >> THEN "" ELSE Head(chars) \o Concat(Tail(chars))

\* The styles of the cases of the switch in format: of the brackets, of the
\* level name and the source, and of the content. INFO styles neither the
\* source nor the content; FATAL has a background around its prefix.
Styles(level) ==
  CASE level = levelNums.TRACE -> [bracket |-> "#5F5F5F", name |-> "#808080",
                                   content |-> "#808080"]
    [] level = levelNums.DEBUG -> [bracket |-> "#787878", name |-> "#9F9F9F",
                                   content |-> "#9F9F9F"]
    [] level = levelNums.INFO  -> [bracket |-> "#0B8E82", name |-> "#26E2D0",
                                   content |-> ""]
    [] level = levelNums.WARN  -> [bracket |-> "yellow", name |-> "yellowBright",
                                   content |-> "yellowBright"]
    [] level = levelNums.ERROR -> [bracket |-> "#9F0000", name |-> "#FF0000",
                                   content |-> "#FF0000"]
    [] level = levelNums.FATAL -> [bracket |-> "black", name |-> "#0F0F0F",
                                   content |-> "#0F0F0F.bgRedBright"]

\* color ? chalk(...)("[") + chalk(...)(text) + chalk(...)("]") : "[" + text + "]"
Bracketed(level, color, text) ==
  IF color
    THEN Chalk(Styles(level).bracket, <<"[">>) \o Chalk(Styles(level).name, text)
           \o Chalk(Styles(level).bracket, <<"]">>)
    ELSE <<"[">> \o text \o <<"]">>

\* component + (source ? "/" + source : "")
Name(component, source) ==
  Pieces(component)
    \o (IF source # undefined /\ source # "" THEN <<"/">> \o Pieces(source) ELSE << >>)

\* (color ? sourceColor : noColor)(name.padEnd(uniform * maxSourceLength))
styledSource(component, source, sourceColor, uniform, maxLen, color) ==
  LET padded == padEnd(Name(component, source), IF uniform THEN maxLen ELSE 0)
  IN  IF color /\ sourceColor # noColor THEN Chalk("#" \o Concat(sourceColor), padded)
      ELSE padded

\* The prefix of the cases of the switch: time, level, padding and source.
Prefix(level, component, source, sourceColor, uniform, maxLen, color, timestamp, full) ==
  LET src    == styledSource(component, source, sourceColor, uniform, maxLen, color)
      srcTag == IF level = levelNums.INFO THEN <<"[">> \o src \o <<"]">>
                ELSE Bracketed(level, color, src)
      tags   == Bracketed(level, color, <<levels[level]>>)
                  \o <<" ", Spaces(IF uniform THEN 5 - Len(levels[level]) ELSE 0)>>
                  \o srcTag \o <<" ">>
  IN  <<"[" \o formatTime(timestamp, full) \o "]", " ">>
        \o (IF color /\ level = levelNums.FATAL THEN Chalk("bgRedBright", tags) ELSE tags)

\* util.inspect(v, false, null, color) of a value that is not a string. An
\* object that holds an error does not fit one line: a property a line, the
\* error with its stack on lines of its own.
inspect(v) ==
  IF v.t # "object" THEN <<v.s>>
  ELSE <<"{", Newline,
         "  timestamp: " \o ToString(v.o.timestamp) \o ",", Newline,
         "  level: '" \o v.o.level \o "',", Newline,
         "  messages: [">>
         \o Join([k \in 1..Len(v.o.messages) |->
                    <<IF v.o.messages[k].t = "string" THEN Quoted(v.o.messages[k].s)
                      ELSE IF v.o.messages[k].t = "object" THEN "[Object]"
                      ELSE v.o.messages[k].s>>], <<", ">>)
         \o <<"],", Newline,
              "  error: Error: target " \o ToString(v.o.error.target), Newline,
              "      at <stack>", Newline, "}">>

\* messages.map(v => typeof v === "string" ? v : inspect(...)).join(" "),
\* in the style of the level
content(messages, level, color) ==
  LET joined == Join([k \in 1..Len(messages) |->
                        IF messages[k].t = "string" THEN Pieces(messages[k].s)
                        ELSE inspect(messages[k])], <<" ">>)
  IN  IF color /\ level # levelNums.INFO THEN Chalk(Styles(level).content, joined)
      ELSE joined

\* The prefix on the first line only.
PrefixFirstLine(prefix, text) == prefix \o text

\* prefix + content.split("\n").join("\n" + prefix)
PrefixLines(prefix, text) == prefix \o Join(Split(text), <<Newline>> \o prefix)

\* A replacer that returns every value as it is.
replacerNone(v) == v

\* The replacer given to stringifySafe: undefined becomes "undefined"; it
\* is called for the properties of an object too.
RECURSIVE replacer(_)
replacer(v) ==
  IF v.t = "undefined" THEN Str("undefined")
  ELSE IF v.t = "object"
    THEN Obj([v.o EXCEPT !.messages = [k \in 1..Len(@) |-> replacer(@[k])]])
  ELSE v

\* JSON.stringify of an array element: undefined is written as null.
ArrayElement(v) == IF v.t = "undefined" THEN Null ELSE v

\* format(messages, level, component, source, sourceColor, uniform,
\* maxSourceLength, format, color, timestamp, fullTimestamps): the record a
\* JSON payload parses into, or the text. An absent source is null, the
\* default of createLogger's parameter.
format(messages, level, component, source, sourceColor, uniform, maxLen, style, color, timestamp, fullTimestamps) ==
  IF style = "JSON"
    THEN [timestamp |-> timestamp,
          level     |-> levels[level],
          component |-> Str(component),
          source    |-> IF source = undefined THEN Null ELSE Str(source),
          msg       |-> [k \in 1..Len(messages) |-> ArrayElement(replacer(messages[k]))]]
    ELSE PrefixLines(Prefix(level, component, source, sourceColor, uniform, maxLen, color,
                            timestamp, fullTimestamps),
                     content(messages, level, color))

\* const content = format(...) of the target at position i in dispatch d:
\* made of values that do not change once the dispatch exists.
Content(d, i) ==
  format(d.messages, d.level, loggers[d.logger].component, loggers[d.logger].source,
         loggers[d.logger].color, d.targets[i].uniform, d.maxSourceLength,
         d.targets[i].format, d.targets[i].color, d.timestamp, d.targets[i].fullTimestamps)

\* ----------------------------------------------------- what the sinks are given
\* Factories of Text and JSON targets, with and without uniform padding,
\* colours and full timestamps; one callable throws, so that recovery events
\* are formatted too.
FormatTargetLists ==
  { <<[Descriptor("FILE", undefined, "LOG", undefined) EXCEPT
         !.uniformLength = TRUE, !.given = {"uniformLength"}],
      [Descriptor("POST", "WARN", "IGNORE", undefined) EXCEPT !.style = "JSON"]>>,
    <<[Descriptor("STDOUT", "INFO", "IGNORE", undefined) EXCEPT
         !.uniformLength = TRUE, !.color = TRUE, !.given = {"uniformLength", "color"}],
      [Descriptor("FUNCTION", undefined, "LOG", "throws") EXCEPT !.style = "JSON"]>>,
    <<[Descriptor("STREAM", "ERROR", "LOG", undefined) EXCEPT
         !.fullTimestamps = TRUE, !.uniformLength = TRUE, !.style = "TEXT",
         !.given = {"uniformLength", "fullTimestamps"}],
      [Descriptor("STDOUT", undefined, "IGNORE", undefined) EXCEPT
         !.color = TRUE, !.given = {"color"}]>> }

\* The loggers: component, source and sourceColor.
FormatLoggers ==
  { <<"svc", undefined, NoColor>>,
    <<"svc2", undefined, ColorNumber(65535)>>,
    <<"svc", "", NoColor>>,
    <<"svc", "db", ColorNumber(65535)>>,
    <<"a\nb", undefined, NoColor>> }

\* The calls: the rank of the level method and the messages it is given.
FormatCalls ==
  { <<levelNums.INFO, <<Str("boom")>> >>,
    <<levelNums.TRACE, <<Str("line 1\nline 2"), Num(42)>> >>,
    <<levelNums.FATAL, <<Str("Fatal"), Num(1), Undefined, Null>> >>,
    <<levelNums.WARN, <<Str("one\n")>> >>,
    <<levelNums.DEBUG, << >> >> }

FormatInit ==
  /\ descs \in FormatTargetLists
  /\ opened = {i \in 1..Len(descs) : OpensStream(descs[i])}
  /\ parsedTargets = createLoggerFactory(descs)
  /\ targets = <<parsedTargets>>
  /\ maxSourceLength = 0
  /\ destroyed = FALSE
  /\ streamDestroys = [i \in 1..Len(descs) |-> 0]
  /\ loggers = << >>
  /\ dispatches = << >>
  /\ sinkCalls = [i \in 1..Len(descs) |-> 0]
  /\ sinkOutcomes = [i \in 1..Len(descs) |-> {}]
  /\ nCalls = 0
  /\ nLogged = 0
  /\ lastOp = [op |-> "createLoggerFactory", error |-> NoError, level |-> 0, pre |-> FALSE,
               disp |-> 0, target |-> 0, color |-> NoColor, length |-> 0]

FormatNext ==
  \/ \E l \in FormatLoggers :
       Len(loggers) < MaxNamedLoggers /\ createLogger(l[1], l[2], l[3])
  \/ \E lg \in 1..MaxNamedLoggers, c \in FormatCalls :
       nCalls < MaxFormatCalls /\ LogCall(lg, c[1], c[2])
  \/ \E id \in 1..MaxDispatches, i \in 1..Len(descs), outcome \in {"ok", "error"} :
       Settle(id, i, outcome)

FormatSpec == FormatInit /\ [][FormatNext]_vars

\* The bound on the dispatches leaves room for every recovery dispatch: a
\* failure under the policy Log is dropped only by the destroyed check.
DispatchBoundUnused ==
  /\ Len(dispatches) <= MaxDispatches
  /\ \A id \in 1..Len(dispatches) : \A i \in 1..Len(dispatches[id].ops) :
       dispatches[id].ops[i] = "dropped" => destroyed

\* ------------------------------------------------------------------ claims
Ids == 1..Len(dispatches)

Positions == 1..Len(parsedTargets)

\* The original dispatches (one per level-method call) and the recovery ones.
Roots == {id \in Ids : dispatches[id].parent = 0}

Recoveries == {id \in Ids : dispatches[id].parent # 0}

\* The dispatches a level-method call caused.
OfCall(c) == {id \in Ids : dispatches[id].call = c}

CallPending(c) == OfCall(c) \cap Pending(dispatches) # {}

Failed == {"thrown", "ignored", "dropped", "relog", "detached"}

\* C1: for every dispatch at rank r and every target with minimum rank m, the
\* target's sink is handed the payload (once) iff r <= m; a target the filter
\* skips has no sink invocation, no operation and no error policy applied.
C1_RankFilter ==
  \A id \in Ids : \A i \in Positions :
    LET d == dispatches[id]
        m == parsedTargets[i].level
    IN  /\ d.sunk[i] = (IF d.level <= m THEN 1 ELSE 0)
        /\ ~(d.level <= m) => (d.ops[i] = "skipped" /\ d.child[i] = 0)
        /\ d.level <= m => d.ops[i] # "skipped"

C1_Witness ==
  \E id \in Ids : \E i, j \in Positions :
    LET d == dispatches[id]
    IN  /\ d.level = parsedTargets[i].level /\ d.sunk[i] = 1
        /\ d.level > parsedTargets[j].level /\ d.sunk[j] = 0 /\ d.ops[j] = "skipped"

\* C2: once destroy() has been called, a level method of any logger fails at
\* once with the destroyed-state error; the call invokes no sink and starts
\* no dispatch.
C2_DestroyedLoggerRejects ==
  [][(destroyed /\ nCalls' # nCalls) =>
        /\ lastOp'.op = "log"
        /\ lastOp'.error = "Logger has been destroyed"
        /\ sinkCalls' = sinkCalls
        /\ dispatches' = dispatches
        /\ nLogged' = nLogged]_vars

C2_Witness ==
  /\ lastOp.op = "log" /\ lastOp.pre /\ lastOp.level = levelNums.FATAL
  /\ lastOp.error = "Logger has been destroyed"
  /\ nCalls = 2 /\ nLogged = 1

\* C3: a destroy() on a destroyed factory raises nothing, calls no sink's
\* destroy() again and leaves the factory as the first call left it.
C3_DestroyIdempotent ==
  [][(lastOp'.op = "destroy" /\ lastOp'.pre) =>
        /\ lastOp'.error = NoError
        /\ UNCHANGED <<targets, destroyed, streamDestroys, maxSourceLength, loggers,
                       dispatches, sinkCalls>>
        /\ destroyed /\ targets = << >>]_vars

C3_Witness ==
  /\ lastOp.op = "destroy" /\ lastOp.pre /\ lastOp.error = NoError
  /\ \E i \in Positions : streamDestroys[i] = 1

\* C4: the factory calls destroy() on a sink only inside destroy() and only on
\* the sinks it opened itself (FILE descriptors); a STREAM descriptor's sink is
\* never closed by it, and destroy() closes every sink of a FILE descriptor.
C4_SinkOwnership ==
  /\ [](\A i \in Positions :
          streamDestroys[i] = (IF destroyed /\ descs[i].type = "FILE" THEN 1 ELSE 0))
  /\ [][streamDestroys' # streamDestroys => (lastOp'.op = "destroy" /\ ~lastOp'.pre)]_vars

C4_Witness ==
  /\ destroyed /\ nLogged > 0 /\ Len(loggers) > 0
  /\ \E i, j \in Positions :
       /\ descs[i].type = "FILE" /\ streamDestroys[i] = 1
       /\ descs[j].type = "STREAM" /\ streamDestroys[j] = 0 /\ sinkCalls[j] > 0

\* C5: a failure during the delivery of a recovery event starts no further
\* recovery dispatch: no dispatch is more than one level below the original
\* one, whatever fails and whatever the targets' configured policies.
C5_RecoveryDepthBound ==
  \A id \in Ids :
    LET d == dispatches[id]
    IN  /\ d.depth <= 1
        /\ d.parent # 0 =>
             /\ dispatches[d.parent].parent = 0
             /\ \A i \in Positions : d.child[i] = 0 /\ d.ops[i] \notin {"relog", "detached", "thrown"}

C5_Witness ==
  \E a, b \in Recoveries :
    /\ a # b /\ dispatches[a].call = dispatches[b].call
    /\ \E i, j \in Positions :
         /\ i # j
         /\ dispatches[a].ops[i] = "ignored" /\ parsedTargets[i].errorPolicy = "LOG"
         /\ dispatches[a].ops[j] = "ignored" /\ parsedTargets[j].errorPolicy = "LOG"
         /\ dispatches[b].ops[i] = "ignored"

\* Target f has policy Log and none of its sink's operations succeeded, and
\* no operation of any other target's sink failed.
OnlyFailing(f) ==
  /\ parsedTargets[f].errorPolicy = "LOG"
  /\ sinkOutcomes[f] \subseteq {"error"}
  /\ \A j \in Positions \ {f} : sinkOutcomes[j] \subseteq {"ok"}

\* The recovery dispatches of the call of original dispatch r.
RecoveriesOf(r) == {k \in Recoveries : dispatches[k].call = dispatches[r].call}

\* One recovery dispatch, for target f of r, whose event every other target
\* is handed exactly once if its threshold admits it and not at all otherwise.
OneRecovery(r, f) ==
  /\ Cardinality(RecoveriesOf(r)) = 1
  /\ \A k \in RecoveriesOf(r) :
       /\ dispatches[k].parent = r /\ dispatches[k].ptarget = f
       /\ \A j \in Positions \ {f} :
            dispatches[k].sunk[j] =
              (IF dispatches[k].level <= parsedTargets[j].level THEN 1 ELSE 0)

Dropped == \E id \in Ids : \E i \in Positions : dispatches[id].ops[i] = "dropped"

\* C6 as stated: with one always-failing Log target f, every call whose
\* operation on f has failed has exactly one recovery event; a healthy target
\* h that accepts every rank has 2n payloads after n calls that reached f.
C6_AsStated ==
  \A f \in Positions : OnlyFailing(f) =>
    /\ \A r \in Roots :
         (dispatches[r].sunk[f] = 1 /\ dispatches[r].ops[f] # "pending") => OneRecovery(r, f)
    /\ \A h \in Positions \ {f} :
         (/\ Pending(dispatches) = {}
          /\ parsedTargets[f].level = levelNums.TRACE
          /\ parsedTargets[h].level = levelNums.TRACE) => sinkCalls[h] = 2 * nLogged

\* C6, amended: the same, for the calls whose failure is caught while the
\* factory is not destroyed (the recovery dispatch is started: "relog").
C6_RecoveryVolume ==
  \A f \in Positions : OnlyFailing(f) =>
    /\ \A r \in Roots :
         (dispatches[r].sunk[f] = 1 /\ dispatches[r].ops[f] \notin {"pending", "dropped"})
            => (dispatches[r].ops[f] = "relog" /\ OneRecovery(r, f))
    /\ \A r \in Roots : dispatches[r].ops[f] = "dropped" => (destroyed /\ RecoveriesOf(r) = {})
    /\ \A h \in Positions \ {f} :
         (/\ Pending(dispatches) = {} /\ ~Dropped
          /\ parsedTargets[f].level = levelNums.TRACE
          /\ parsedTargets[h].level = levelNums.TRACE) => sinkCalls[h] = 2 * nLogged

C6_Witness ==
  \E f, h \in Positions :
    /\ f # h /\ OnlyFailing(f) /\ Pending(dispatches) = {} /\ ~Dropped
    /\ parsedTargets[f].type = "STREAM"
    /\ parsedTargets[f].level = levelNums.TRACE /\ parsedTargets[h].level = levelNums.TRACE
    /\ nLogged = 2 /\ sinkCalls[h] = 4 /\ sinkOutcomes[h] = {"ok"} /\ sinkOutcomes[f] = {"error"}
    /\ \E r \in Roots : dispatches[r].ops[f] = "relog" /\ OneRecovery(r, f)

\* C7 as stated: in the recovery dispatch for a failure of target i, the sink
\* of target i is not handed the recovery event.
C7_AsStated ==
  \A k \in Recoveries : dispatches[k].sunk[dispatches[k].ptarget] = 0

\* C7, amended: the recovery dispatch for a failure of target i hands the
\* recovery event to the sink of target i too, once, under the policy Ignore:
\* a failure of that delivery is swallowed (no rejection, no further dispatch).
C7_RecoveryReachesFailingTarget ==
  \A k \in Recoveries :
    LET d == dispatches[k]
        i == d.ptarget
    IN  /\ d.sunk[i] = 1
        /\ d.targets[i].errorPolicy = "IGNORE"
        /\ d.ops[i] \in {"pending", "ok", "ignored"}
        /\ d.child[i] = 0

C7_Witness ==
  \E k \in Recoveries :
    LET d == dispatches[k]
    IN  /\ d.sunk[d.ptarget] = 1 /\ d.ops[d.ptarget] = "ignored"
        /\ parsedTargets[d.ptarget].errorPolicy = "LOG"
        /\ parsedTargets[d.ptarget].level = levelNums.FATAL

C9_ResolveAfterAllSettled ==
  \A r \in Roots : dispatches[r].state = "fulfilled" => ~CallPending(dispatches[r].call)

C9_Witness ==
  \E r \in Roots : \E k \in Recoveries : \E i \in Positions :
    /\ dispatches[r].state = "fulfilled" /\ dispatches[k].parent = r
    /\ dispatches[k].ops[i] = "ignored"
    /\ \E j \in Positions : dispatches[r].ops[j] = "ok"

\* C10: a handle is rejected only by the failure of an eligible target of the
\* original dispatch whose policy is Throw, and with that target's error; no
\* recovery dispatch is ever rejected, whatever fails in it.
C10_RejectOnlyByThrow ==
  \A id \in Ids :
    LET d == dispatches[id]
    IN  /\ d.state = "rejected" =>
             /\ d.parent = 0
             /\ d.reason.d = id
             /\ d.reason.t \in Positions
             /\ parsedTargets[d.reason.t].errorPolicy = "THROW"
             /\ d.level <= parsedTargets[d.reason.t].level
             /\ d.ops[d.reason.t] = "thrown"
        /\ (\A i \in Positions : parsedTargets[i].errorPolicy # "THROW") => d.state # "rejected"
        /\ \A i \in Positions :
             (d.ops[i] \in Failed /\ (d.parent # 0 \/ parsedTargets[i].errorPolicy # "THROW"))
                => d.ops[i] # "thrown"

C10_Witness ==
  \E r \in Roots : \E k \in Recoveries : \E i, j \in Positions :
    /\ dispatches[r].state = "rejected" /\ dispatches[r].reason = [d |-> r, t |-> i]
    /\ dispatches[k].parent = r /\ dispatches[k].ptarget = j
    /\ parsedTargets[i].errorPolicy = "THROW" /\ dispatches[k].ops[i] = "ignored"
    /\ dispatches[k].ops[j] = "ignored" /\ dispatches[k].state = "fulfilled"

\* An eligible target of dispatch id: the filter of _log lets it through.
Eligible(id, i) == dispatches[id].level <= parsedTargets[i].level

\* C11: in every dispatch each eligible target's sink has been invoked when
\* the call has returned, the invocations of one dispatch are in target-list
\* order, and a failure of one target, thrown by the callable or reported
\* later, under any policy, leaves every other operation as it is: a
\* settlement changes the one operation it is of, so that an operation that
\* is pending stays pending until its own sink answers.
C11_AllInitiatedInOrder ==
  /\ [](\A id \in Ids : \A i \in Positions :
          LET d == dispatches[id]
          IN  /\ d.ops[i] # "init"
              /\ Eligible(id, i) => (d.sunk[i] = 1 /\ d.at[i] > 0 /\ d.ops[i] # "skipped")
              /\ \A j \in Positions :
                   (i < j /\ Eligible(id, i) /\ Eligible(id, j)) => d.at[i] < d.at[j])
  /\ [][lastOp'.op = "settle" =>
          \A id \in Ids : \A i \in Positions :
            (id # lastOp'.disp \/ i # lastOp'.target) =>
               /\ dispatches'[id].ops[i] = dispatches[id].ops[i]
               /\ dispatches'[id].sunk[i] = dispatches[id].sunk[i]]_vars

\* The callable of the first target threw under Throw, or under Log with its
\* recovery dispatch run before the second target's sink was invoked, and
\* the second target's operation was started and has succeeded.
C11_Witness ==
  \E r \in Roots : \E k \in Recoveries :
    /\ dispatches[r].ops[1] = "relog" /\ parsedTargets[1].func = "throws"
    /\ dispatches[k].parent = r /\ dispatches[k].at[2] < dispatches[r].at[2]
    /\ dispatches[r].ops[2] = "ok" /\ dispatches[k].ops[2] = "ok"
    /\ dispatches[r].state = "fulfilled"

\* C12: the recovery event for a failure in a dispatch at rank r has rank
\* min(r, ERROR), never less severe than ERROR; a target with minimum rank m
\* is handed the recovery event iff min(r, ERROR) <= m, whether or not it was
\* handed the original event; a target with threshold FATAL is handed it only
\* for failures of FATAL calls.
C12_RecoveryRankClamp ==
  \A k \in Recoveries :
    LET d == dispatches[k]
        r == dispatches[d.parent].level
        c == IF r < levelNums.ERROR THEN r ELSE levelNums.ERROR
    IN  /\ d.level = c
        /\ d.level <= levelNums.ERROR
        /\ \A i \in Positions :
             /\ d.sunk[i] = (IF c <= parsedTargets[i].level THEN 1 ELSE 0)
             /\ (parsedTargets[i].level = levelNums.FATAL /\ d.sunk[i] = 1) => r = levelNums.FATAL

\* A TRACE call failed; the recovery event, at ERROR, went to a target that
\* the original event was too low for.
C12_Witness ==
  \E k \in Recoveries : \E j \in Positions :
    LET d == dispatches[k]
    IN  /\ dispatches[d.parent].level = levelNums.TRACE /\ d.level = levelNums.ERROR
        /\ dispatches[d.parent].ops[j] = "skipped" /\ dispatches[d.parent].sunk[j] = 0
        /\ parsedTargets[j].level = levelNums.WARN
        /\ d.sunk[j] = 1 /\ d.ops[j] = "ok"

\* C13: the recovery event for a failure of the target at position f of the
\* list given to createLoggerFactory has two messages: "Failed to log to
\* target i:" with i = f counted from zero, and a payload with the timestamp,
\* the level name and the messages of the original call and the error.
C13_RecoveryMessage ==
  \A k \in Recoveries :
    LET d == dispatches[k]
        p == dispatches[d.parent]
        f == d.ptarget
    IN  /\ f \in 1..Len(descs) /\ p.ops[f] = "relog" /\ p.child[f] = k
        /\ p.targets[f] = ParseTarget(descs[f]) /\ sinkOutcomes[f] \cap {"error", "destroyed"} # {}
        /\ Len(d.messages) = 2
        /\ d.messages[1] = Str(CASE f = 1 -> "Failed to log to target 0:"
                                 [] f = 2 -> "Failed to log to target 1:")
        /\ d.messages[2].t = "object"
        /\ d.messages[2].o.timestamp = p.timestamp /\ p.timestamp # d.timestamp
        /\ d.messages[2].o.level = levels[p.level]
        /\ d.messages[2].o.messages = p.messages /\ p.messages = Messages(p.call)
        /\ d.messages[2].o.error = SinkError(p.timestamp, f)
        /\ DOMAIN d.messages[2].o = {"timestamp", "level", "messages", "error"}

\* The second target of the list failed in an INFO call: the recovery event,
\* at ERROR, names target 1 and the level INFO.
C13_Witness ==
  \E k \in Recoveries :
    LET d == dispatches[k]
    IN  /\ d.ptarget = 2 /\ d.messages[1] = Str("Failed to log to target 1:")
        /\ d.messages[2].o.level = "INFO" /\ d.level = levelNums.ERROR
        /\ d.messages[2].o.messages = <<Str("call 2")>>
        /\ d.sunk[1] = 1 /\ dispatches[d.parent].ops[1] = "ok"

\* C14: when an operation of a Log-policy target fails after the factory was
\* destroyed while the operation was pending, no recovery dispatch is started
\* and no sink is invoked; the failure is dropped: the operation's promise is
\* fulfilled and the handle is not rejected by it.
C14_NoRecoveryAfterDestroy ==
  [][(/\ lastOp'.op = "settle" /\ destroyed
      /\ dispatches[lastOp'.disp].targets[lastOp'.target].errorPolicy = "LOG"
      /\ dispatches'[lastOp'.disp].ops[lastOp'.target] # "ok") =>
        /\ dispatches'[lastOp'.disp].ops[lastOp'.target] = "dropped"
        /\ Len(dispatches') = Len(dispatches)
        /\ sinkCalls' = sinkCalls
        /\ OpPromise(dispatches', lastOp'.disp, lastOp'.target) = "fulfilled"
        /\ (dispatches'[lastOp'.disp].state = "rejected"
              => dispatches[lastOp'.disp].state = "rejected")]_vars

\* Both operations of a call were pending when the factory was destroyed; the
\* request of a Log-policy POST target then failed, the other one succeeded,
\* and the handle is fulfilled with no recovery dispatch made.
C14_Witness ==
  \E r \in Roots : \E i, j \in Positions :
    /\ destroyed /\ lastOp.op = "settle" /\ lastOp.pre
    /\ dispatches[r].ops[i] = "dropped" /\ parsedTargets[i].type = "HTTPS"
    /\ parsedTargets[i].errorPolicy = "LOG" /\ sinkOutcomes[i] = {"error"}
    /\ dispatches[r].ops[j] = "ok" /\ dispatches[r].state = "fulfilled"
    /\ RecoveriesOf(r) = {} /\ sinkCalls[j] = 1 /\ nLogged = 1

\* C15: once destroy() has returned, no step (a level-method call, the
\* settlement of an operation that was pending, createLogger, destroy())
\* invokes a sink or starts a dispatch, original or recovery, and the
\* destroyed flag stays set with the target list gone.
C15_DestroyedForGood ==
  /\ [](destroyed => targets = << >>)
  /\ [][destroyed =>
          /\ destroyed'
          /\ sinkCalls' = sinkCalls
          /\ Len(dispatches') = Len(dispatches)
          /\ \A id \in Ids : dispatches'[id].sunk = dispatches[id].sunk]_vars

\* After destroy(): a level method was called and threw, then a pending
\* operation of the earlier call failed on a Log-policy target while the
\* call's other operation is still pending.
C15_Witness ==
  \E r \in Roots : \E i, j \in Positions :
    /\ destroyed /\ nCalls = 2 /\ nLogged = 1
    /\ lastOp.op = "settle" /\ lastOp.pre /\ lastOp.disp = r /\ lastOp.target = i
    /\ dispatches[r].ops[i] = "dropped" /\ dispatches[r].ops[j] = "pending"
    /\ sinkCalls[i] = 1 /\ sinkCalls[j] = 1 /\ Len(dispatches) = 1

\* C16 as stated: every operation, on every kind of target, ends with an
\* outcome of its sink's own, as it would without destroy(): none ends with
\* the error of a stream destroyed under it.
C16_AsStated ==
  \A i \in Positions : sinkOutcomes[i] \subseteq {"ok", "error"}

\* C16, amended: destroy() itself settles or cancels no operation, and the
\* operations issued to callables, HTTP(S) endpoints and caller-supplied
\* streams end with their sinks' own outcomes whether or not destroy() came
\* in between; only a write pending on a sink the factory opened (a FILE
\* descriptor), which destroy() has destroyed, can end with the error of the
\* destroyed stream instead.
C16_OnlyOwnedFileWritesAbort ==
  /\ [](\A i \in Positions :
          /\ descs[i].type # "FILE" => sinkOutcomes[i] \subseteq {"ok", "error"}
          /\ "destroyed" \in sinkOutcomes[i] =>
               (descs[i].type = "FILE" /\ destroyed /\ streamDestroys[i] = 1))
  /\ [][lastOp'.op = "destroy" =>
          (dispatches' = dispatches /\ sinkOutcomes' = sinkOutcomes)]_vars

\* destroy() came while a write to a FILE target and a write to a
\* caller-supplied stream were pending: the first failed with the error of
\* the destroyed stream, the second then succeeded.
C16_Witness ==
  \E r \in Roots : \E i, j \in Positions :
    /\ descs[i].type = "FILE" /\ sinkOutcomes[i] = {"destroyed"} /\ streamDestroys[i] = 1
    /\ dispatches[r].ops[i] = "dropped"
    /\ descs[j].type = "STREAM" /\ streamDestroys[j] = 0
    /\ lastOp.op = "settle" /\ lastOp.pre /\ lastOp.disp = r /\ lastOp.target = j
    /\ dispatches[r].ops[j] = "ok" /\ sinkOutcomes[j] = {"ok"}

\* C17: createLogger on a destroyed factory throws the destroyed-state
\* error, whatever its arguments, and leaves the loggers and the factory's
\* maximum name length as they were.
C17_CreateLoggerDestroyed ==
  [][(lastOp'.op = "createLogger" /\ destroyed) =>
        /\ lastOp'.error = "LoggerFacotry has been destroyed"
        /\ UNCHANGED <<loggers, maxSourceLength, destroyed, targets>>]_vars

\* createLogger was called on a destroyed factory that had made one logger,
\* with a valid colour.
C17_Witness ==
  /\ lastOp.op = "createLogger" /\ lastOp.pre /\ destroyed
  /\ lastOp.error = "LoggerFacotry has been destroyed"
  /\ lastOp.color = ColorNumber(65535)
  /\ Len(loggers) = 1 /\ maxSourceLength = 6

\* C18 as stated: a successful createLogger(component, source) sets the
\* maximum name length to max(current, len(component) + (source ? 1 +
\* len(source) : 0)), the length of the name format() renders for the logger,
\* for a source that is absent, empty or not empty.
C18_AsStated ==
  [][(lastOp'.op = "createLogger" /\ lastOp'.error = NoError) =>
        LET lg   == loggers'[Len(loggers')]
            len  == Len(lg.component) +
                      (IF lg.source # undefined /\ lg.source # "" THEN 1 + Len(lg.source) ELSE 0)
        IN  /\ len = Len(DisplayName(lg.component, lg.source))
            /\ maxSourceLength' = (IF len > maxSourceLength THEN len ELSE maxSourceLength)]_vars

\* C19: no step lowers the factory's maximum name length, and the only step
\* that changes it is a createLogger that returns a logger.
C19_MaxNameLengthMonotonic ==
  [][/\ maxSourceLength' >= maxSourceLength
     /\ maxSourceLength' # maxSourceLength =>
          /\ lastOp'.op = "createLogger" /\ lastOp'.error = NoError /\ ~destroyed
          /\ Len(loggers') = Len(loggers) + 1]_vars

\* A logger with a long name, then one with a shorter name; a level-method
\* call, destroy() and a createLogger that failed: the maximum is the first
\* logger's.
C19_Witness ==
  /\ Len(loggers) = 2 /\ loggers[1].component = "svc2" /\ loggers[1].source = "db"
  /\ loggers[2].component = "svc" /\ loggers[2].source = undefined
  /\ maxSourceLength = 7 /\ nLogged > 0 /\ destroyed /\ lastOp.op = "settle"

\* An invalid colour specification, in the claim's words.
InvalidColor(c) ==
  CASE c.kind = "number" -> ~(c.n >= 0 /\ c.n < 2 ^ 24)
    [] c.kind = "array"  -> Len(c.a) # 3 \/ \E k \in 1..Len(c.a) : ~(c.a[k] >= 0 /\ c.a[k] <= 255)
    [] c.kind = "string" ->
         LET t == IF Len(c.chars) > 0 /\ c.chars[1] = "#" THEN Tail(c.chars) ELSE c.chars
         IN  Len(t) # 6 \/ \E k \in 1..Len(t) : t[k] \notin HexDigits
    [] OTHER -> FALSE

\* C20 as stated: createLogger on a factory that is not destroyed throws a
\* validation error for every invalid colour specification: an integer
\* outside [0, 2^24), an array that has not exactly 3 elements or has an
\* element outside [0, 255], a string that after stripping one leading "#"
\* is not exactly 6 hex digits, whatever its length.
C20_AsStated ==
  (lastOp.op = "createLogger" /\ ~lastOp.pre /\ InvalidColor(lastOp.color))
     => lastOp.error \in {"TypeError", "RangeError"}

\* C21: a createLogger that throws, for its colour or for the destroyed
\* factory, leaves the factory as it was: the maximum name length, the target
\* list, the destroyed flag and the loggers made so far, also when the name
\* it was given is longer than every name so far.
C21_FailedCreateLoggerNoEffect ==
  [][(lastOp'.op = "createLogger" /\ lastOp'.error # NoError) =>
        UNCHANGED <<maxSourceLength, targets, parsedTargets, destroyed, loggers,
                    streamDestroys, dispatches>>]_vars

\* A logger "svc" exists; createLogger was then given the longer name
\* "svc2/db" with an array of two numbers and threw.
C21_Witness ==
  /\ lastOp.op = "createLogger" /\ lastOp.error = "TypeError" /\ ~lastOp.pre
  /\ lastOp.color = ColorArray(<<255, 0>>)
  /\ Len(loggers) = 1 /\ maxSourceLength = 3 /\ lastOp.length = 7

\* C22: for a colour (r, g, b), the array [r, g, b], the number r*65536 +
\* g*256 + b, the six hex digits of that number and the same digits after a
\* "#" are all accepted by createLogger and give the logger the same colour,
\* the six hex digits.
C22_ColorFormsAgree ==
  \A e \in ColorTable :
    (lastOp.op = "createLogger" /\ ~lastOp.pre /\ lastOp.color \in FormsOf(e)) =>
       /\ lastOp.error = NoError
       /\ Len(loggers) > 0 /\ loggers[Len(loggers)].color = e.hex

\* Two loggers of the same colour, the second one made from the array
\* [0, 255, 255].
C22_Witness ==
  /\ Len(loggers) = 2 /\ lastOp.op = "createLogger" /\ lastOp.error = NoError
  /\ lastOp.color = ColorArray(<<0, 255, 255>>)
  /\ loggers[2].color = <<"0", "0", "f", "f", "f", "f">>
  /\ loggers[1].color = loggers[2].color

\* The fields of a descriptor that are not what the module documents.
UnknownKind(t) == t.type \notin {"FILE", "STREAM", "POST", "STDOUT", "FUNCTION"}

BadLevel(t) == t.logLevel \notin LevelNames \cup {undefined}

BadStyle(t) == t.style \notin {"JSON", "TEXT", undefined}

BadPolicy(t) == t.errorPolicy \notin {"THROW", "LOG", "IGNORE", undefined}

BadStream(t) == t.type = "STREAM" /\ t.stream # "WriteStream"

BadFunction(t) == t.type = "FUNCTION" /\ t.function \notin {"returns", "throws"}

\* createLoggerFactory failed: it threw and there is no factory.
FactoryFailed ==
  /\ lastOp.op = "createLoggerFactory" /\ lastOp.error # NoError
  /\ parsedTargets = << >> /\ targets = << >>

\* C25 (as stated): when createLoggerFactory fails on a descriptor, no
\* factory is produced and no file stream has been made, neither for the
\* descriptor that failed nor for an earlier one.
C25_AsStated ==
  (descs # << >> /\ \E i \in 1..Len(descs) : ParseTargetThrows(descs[i]) # NoError) =>
     FactoryFailed /\ opened = {}

\* C26: createLoggerFactory gives every target, whatever its kind, the
\* threshold TRACE, the style TEXT, the error policy LOG and the flags
\* color, uniform and fullTimestamps false where the descriptor leaves the
\* field out, and the value the descriptor gives where it gives a valid one.
C26_Defaults ==
  \A i \in 1..Len(parsedTargets) :
    LET t == descs[i]
        v == parsedTargets[i]
    IN  /\ v.level = (IF t.logLevel = undefined THEN 6
                        ELSE IF t.logLevel \in LevelNames THEN levelNums[t.logLevel]
                        ELSE v.level)
        /\ v.format = (IF t.style = undefined THEN "TEXT" ELSE t.style)
        /\ v.errorPolicy = (IF t.errorPolicy = undefined THEN "LOG" ELSE t.errorPolicy)
        /\ v.color = (IF "color" \in t.given THEN t.color ELSE FALSE)
        /\ v.uniform = (IF "uniformLength" \in t.given THEN t.uniformLength ELSE FALSE)
        /\ v.fullTimestamps = (IF "fullTimestamps" \in t.given THEN t.fullTimestamps ELSE FALSE)

\* A factory of a STDOUT target that leaves every shared field out and a
\* FILE target that gives every one of them.
C26_Witness ==
  /\ Len(parsedTargets) = 2
  /\ descs[1] = Descriptor("STDOUT", undefined, undefined, undefined)
  /\ parsedTargets[1].level = 6 /\ parsedTargets[1].errorPolicy = "LOG"
  /\ ~parsedTargets[1].color
  /\ descs[2].type = "FILE" /\ descs[2].given = {"color", "uniformLength", "fullTimestamps"}
  /\ parsedTargets[2].level = 3 /\ parsedTargets[2].format = "JSON"
  /\ parsedTargets[2].errorPolicy = "THROW" /\ parsedTargets[2].color

\* C27 (as stated): createLoggerFactory fails, and there is no factory, when
\* a descriptor of the list, wherever it sits, has an unknown kind, a level
\* name that is not one of the six, a style other than JSON and TEXT, an
\* error policy other than THROW, LOG and IGNORE, a STREAM sink that is not a
\* WriteStream or a FUNCTION payload that is not callable.
C27_AsStated ==
  (descs # << >> /\ \E i \in 1..Len(descs) :
      \/ UnknownKind(descs[i]) \/ BadLevel(descs[i]) \/ BadStyle(descs[i])
      \/ BadPolicy(descs[i]) \/ BadStream(descs[i]) \/ BadFunction(descs[i]))
    => FactoryFailed

\* The longest of the lengths createLogger computed for the loggers 1..n.
LongestUpTo(n) ==
  LET lens == {SourceLength(loggers[k].component, loggers[k].source) : k \in 1..n}
  IN  CHOOSE m \in lens : \A l \in lens : l <= m

\* The longest of the names format renders for the loggers.
LongestName ==
  LET lens == {Len(DisplayName(loggers[k].component, loggers[k].source)) :
                 k \in 1..Len(loggers)}
  IN  CHOOSE m \in lens : \A l \in lens : l <= m

\* The payloads of Text and of JSON targets: the dispatch and the position.
Payloads(style) ==
  {p \in UNION {{id} \X (1..Len(dispatches[id].targets)) : id \in 1..Len(dispatches)} :
     /\ dispatches[p[1]].targets[p[2]].format = style
     /\ dispatches[p[1]].ops[p[2]] # "skipped"}

\* The prefix and the joined messages of a Text payload.
PrefixOf(d, i) ==
  Prefix(d.level, loggers[d.logger].component, loggers[d.logger].source,
         loggers[d.logger].color, d.targets[i].uniform, d.maxSourceLength,
         d.targets[i].color, d.timestamp, d.targets[i].fullTimestamps)

BodyOf(d, i) == content(d.messages, d.level, d.targets[i].color)

Newlines(text) == Cardinality({k \in 1..Len(text) : text[k] = Newline})

StartsWith(line, prefix) ==
  Len(line) >= Len(prefix) /\ SubSeq(line, 1, Len(prefix)) = prefix

\* C23 (as stated): the width a call pads names to is the longest name
\* among the loggers created up to the creation of the logger that makes
\* the call: a logger created later does not change it.
C23_AsStated ==
  \A id \in 1..Len(dispatches) :
    dispatches[id].maxSourceLength = LongestUpTo(dispatches[id].logger)

\* C23 (amended): the width is read when the level method is called, the
\* longest length computed for the loggers created until then, whichever
\* logger makes the call; the recovery events of the call keep that width,
\* whatever loggers are created before they are made.
C23_WidthReadAtCall ==
  /\ [](\A k \in 1..Len(dispatches) :
          dispatches[k].parent # 0 =>
            /\ dispatches[k].maxSourceLength =
                 dispatches[dispatches[k].parent].maxSourceLength
            /\ dispatches[k].logger = dispatches[dispatches[k].parent].logger)
  /\ [][(lastOp'.op = "log" /\ lastOp'.error = NoError) =>
          \A id \in 1..Len(dispatches') :
            dispatches'[id].call = nCalls' =>
              /\ dispatches'[id].maxSourceLength = maxSourceLength
              /\ dispatches'[id].maxSourceLength = LongestUpTo(Len(loggers))]_vars

\* The first logger, created when the longest name had 3 characters, pads
\* to 4 in a call it makes after a logger of 4 characters was created; a
\* recovery event of the call pads to 4 too.
C23_Witness ==
  /\ Len(loggers) = 2 /\ LongestUpTo(1) = 3 /\ LongestUpTo(2) = 4
  /\ \E id \in 1..Len(dispatches) :
       /\ dispatches[id].parent # 0 /\ dispatches[id].logger = 1
       /\ dispatches[id].maxSourceLength = 4
       /\ dispatches[dispatches[id].parent].maxSourceLength = 4

\* C24 (as stated): in a call made when all the loggers exist, a Text target
\* with uniform padding renders the name padded to the longest name the
\* loggers of the factory have.
C24_AsStated ==
  (lastOp.op = "log" /\ lastOp.error = NoError) =>
    \A p \in Payloads("TEXT") :
      LET d == dispatches[p[1]]
          l == loggers[d.logger]
      IN  (d.call = nCalls /\ d.targets[p[2]].uniform) =>
            TextLen(styledSource(l.component, l.source, l.color, TRUE,
                                 d.maxSourceLength, FALSE)) = LongestName

\* C28 (as stated): a Text payload has one line more than the joined
\* messages have newlines, every line starts with the prefix of the call,
\* and the level the prefix names is one the target's threshold admits.
C28_AsStated ==
  \A p \in Payloads("TEXT") :
    LET d     == dispatches[p[1]]
        lines == Split(Content(d, p[2]))
    IN  /\ Len(lines) = Newlines(BodyOf(d, p[2])) + 1
        /\ \A n \in 1..Len(lines) : StartsWith(lines[n], PrefixOf(d, p[2]))
        /\ \E n \in 1..Len(PrefixOf(d, p[2])) : PrefixOf(d, p[2])[n] = levels[d.level]
        /\ d.level <= d.targets[p[2]].level

\* C28 (amended): the same, for a logger whose component and source hold no
\* newline.
C28_LinesPrefixed ==
  \A p \in Payloads("TEXT") :
    LET d     == dispatches[p[1]]
        l     == loggers[d.logger]
        lines == Split(Content(d, p[2]))
    IN  Newlines(Name(l.component, l.source)) = 0 =>
          /\ Len(lines) = Newlines(BodyOf(d, p[2])) + 1
          /\ \A n \in 1..Len(lines) : StartsWith(lines[n], PrefixOf(d, p[2]))
          /\ \E n \in 1..Len(PrefixOf(d, p[2])) : PrefixOf(d, p[2])[n] = levels[d.level]
          /\ d.level <= d.targets[p[2]].level

\* A call with a message of two lines, written to a Text target in two
\* lines, and a recovery event whose payload has more lines than that.
C28_Witness ==
  /\ \E p \in Payloads("TEXT") :
       LET d == dispatches[p[1]]
       IN  /\ d.parent = 0 /\ d.messages = <<Str("line 1\nline 2"), Num(42)>>
           /\ Newlines(Name(loggers[d.logger].component, loggers[d.logger].source)) = 0
           /\ Len(Split(Content(d, p[2]))) = 2
  /\ \E p \in Payloads("TEXT") :
       /\ dispatches[p[1]].parent # 0
       /\ Len(Split(Content(dispatches[p[1]], p[2]))) > 2

\* C29: the msg array of a JSON payload has the call's message values, as
\* many and in their order: undefined as the string "undefined", null as
\* null, strings and numbers as they are; source is null for a logger
\* without source.
C29_JsonMessages ==
  \A p \in Payloads("JSON") :
    LET d == dispatches[p[1]]
        j == Content(d, p[2])
    IN  /\ Len(j.msg) = Len(d.messages)
        /\ \A k \in 1..Len(d.messages) :
             /\ j.msg[k].t = (IF d.messages[k].t = "undefined" THEN "string"
                              ELSE d.messages[k].t)
             /\ d.messages[k].t = "undefined" => j.msg[k] = Str("undefined")
             /\ d.messages[k].t \in {"null", "string", "number"} => j.msg[k] = d.messages[k]
        /\ loggers[d.logger].source = undefined => j.source = Null

\* The call fatal("Fatal", 1, undefined, null) of a logger without source,
\* in JSON.
C29_Witness ==
  \E p \in Payloads("JSON") :
    LET d == dispatches[p[1]]
        j == Content(d, p[2])
    IN  /\ d.messages = <<Str("Fatal"), Num(1), Undefined, Null>>
        /\ loggers[d.logger].source = undefined
        /\ j.msg = <<Str("Fatal"), Num(1), Str("undefined"), Null>>
        /\ j.source = Null /\ j.level = "FATAL"

\* C30: the handle of every log call settles in the end when every sink
\* operation of the call and of its recovery dispatches settles, whether the
\* operations succeed or fail.
C30_HandleSettles ==
  \A c \in 1..MaxCalls :
    (\E id \in Roots : dispatches[id].call = c /\ dispatches[id].state = "pending")
      ~> ~(\E id \in Roots : dispatches[id].call = c /\ dispatches[id].state = "pending")

\* A handle that is fulfilled although one operation failed and was ignored
\* and another failed and was logged.
C30_Witness ==
  /\ \E id \in Roots :
       /\ dispatches[id].state = "fulfilled"
       /\ \E i \in 1..Len(dispatches[id].ops) : dispatches[id].ops[i] = "relog"
  /\ \E id \in Recoveries :
       /\ dispatches[id].state = "fulfilled"
       /\ \E i \in 1..Len(dispatches[id].ops) : dispatches[id].ops[i] = "ignored"

\* C32: in every state the destroyed state a logger reports is the destroyed
\* flag of its factory, whichever logger of the factory is asked: a level
\* method of any logger is refused as destroyed exactly when the factory was
\* destroyed before the call, and a logger record holds no flag of its own.
C32_LoggerDestroyedIsFactoryFlag ==
  /\ [](/\ LoggerDestroyed <=> destroyed
        /\ \A lg \in 1..Len(loggers) : "destroyed" \notin DOMAIN loggers[lg])
  /\ [][nCalls' # nCalls =>
          (lastOp'.error = "Logger has been destroyed" <=> destroyed)]_vars

\* Two loggers of one factory: a call was dispatched, the factory was
\* destroyed, and the next call was refused.
C32_Witness ==
  /\ Len(loggers) = 2 /\ destroyed /\ LoggerDestroyed
  /\ nCalls = 2 /\ nLogged = 1
  /\ lastOp.op = "log" /\ lastOp.error = "Logger has been destroyed"

\* C35: in every state of a factory the destroyed flag is set exactly when
\* the target list is gone; until then the list is the one
\* createLoggerFactory built: one target per descriptor, in descriptor order,
\* each the parse of its descriptor.
C35_DestroyedIffTargetsGone ==
  /\ destroyed <=> targets = << >>
  /\ ~destroyed =>
       /\ targets = <<createLoggerFactory(descs)>>
       /\ Len(targets[1]) = Len(descs)
       /\ \A i \in 1..Len(descs) : targets[1][i] = ParseTarget(descs[i])

\* A factory of two targets of different kinds, still alive after two calls,
\* one of which had a failure reported by a recovery dispatch.
C35_Witness ==
  /\ ~destroyed /\ Len(descs) = 2 /\ descs[1].type # descs[2].type
  /\ targets[1][1].type = descs[1].type /\ targets[1][2].type = descs[2].type
  /\ nLogged = 2 /\ Recoveries # {} /\ Pending(dispatches) = {}

\* The recovery dispatches started for the failure of target i in dispatch id.
RecoveriesFor(id, i) ==
  {k \in Recoveries : dispatches[k].parent = id /\ dispatches[k].ptarget = i}

\* The callable of target i was invoked in dispatch id and the delivery
\* failed: the callable threw, or what it returned was rejected.
CallbackFailed(id, i) ==
  /\ dispatches[id].targets[i].type = "FUNCTION"
  /\ dispatches[id].ops[i] \in Failed

\* What the policy of target i made of a failure in dispatch id, when the
\* policy is Throw or Ignore.
ThrowOrIgnore(id, i) ==
  LET d == dispatches[id]
  IN  /\ d.targets[i].errorPolicy = "THROW" =>
           /\ d.ops[i] = "thrown" /\ d.state = "rejected" /\ RecoveriesFor(id, i) = {}
      /\ d.targets[i].errorPolicy = "IGNORE" =>
           /\ d.ops[i] = "ignored" /\ RecoveriesFor(id, i) = {}
           /\ OpPromise(dispatches, id, i) = "fulfilled"

\* A callable that is invoked either throws, and the failure is handled
\* before the map goes on, or returns, and the delivery succeeds unless
\* what it returned is rejected.
CallbackOutcomes ==
  \A id \in Ids : \A i \in Positions :
    LET d == dispatches[id]
    IN  (d.targets[i].type = "FUNCTION" /\ d.sunk[i] = 1) =>
          /\ d.targets[i].func = "throws" => d.ops[i] \in Failed
          /\ d.ops[i] = "ok" =>
               /\ d.targets[i].func = "returns" /\ RecoveriesFor(id, i) = {}
               /\ OpPromise(dispatches, id, i) = "fulfilled"

\* C33 as stated: every failure of a callable, thrown or rejected, is handled
\* by the policy, and under Log it starts one recovery dispatch.
C33_AsStated ==
  \A id \in Ids : \A i \in Positions :
    CallbackFailed(id, i) =>
      /\ ThrowOrIgnore(id, i)
      /\ dispatches[id].targets[i].errorPolicy = "LOG" =>
           /\ dispatches[id].ops[i] = "relog"
           /\ Cardinality(RecoveriesFor(id, i)) = 1

\* C33, amended: a callable that throws and a callable whose result is
\* rejected are both failures handled by the target's policy: Throw rejects
\* the handle, Ignore swallows, and Log starts one recovery dispatch if the
\* factory is not destroyed when the failure is caught and none if it is,
\* which only a rejection can meet; a callable that returns and whose result
\* is not rejected is a successful delivery.
C33_CallbackFailures ==
  /\ CallbackOutcomes
  /\ \A id \in Ids : \A i \in Positions :
       CallbackFailed(id, i) =>
         /\ ThrowOrIgnore(id, i)
         /\ dispatches[id].targets[i].errorPolicy = "LOG" =>
              \/ /\ dispatches[id].ops[i] = "relog"
                 /\ Cardinality(RecoveriesFor(id, i)) = 1
              \/ /\ dispatches[id].ops[i] = "dropped" /\ destroyed
                 /\ dispatches[id].targets[i].func = "returns"
                 /\ RecoveriesFor(id, i) = {}

\* One call over a callable that throws and a callable whose result is
\* rejected later, both with policy Log: each failure has its own recovery
\* dispatch, in which the other callable failed again and was ignored.
C33_Witness ==
  \E r \in Roots : \E i, j \in Positions :
    /\ parsedTargets[i].type = "FUNCTION" /\ parsedTargets[i].func = "throws"
    /\ parsedTargets[j].type = "FUNCTION" /\ parsedTargets[j].func = "returns"
    /\ parsedTargets[i].errorPolicy = "LOG" /\ parsedTargets[j].errorPolicy = "LOG"
    /\ dispatches[r].ops[i] = "relog" /\ dispatches[r].ops[j] = "relog"
    /\ Cardinality(RecoveriesFor(r, i)) = 1 /\ Cardinality(RecoveriesFor(r, j)) = 1
    /\ \A k \in RecoveriesFor(r, i) \cup RecoveriesFor(r, j) :
         dispatches[k].ops[i] = "ignored" /\ dispatches[k].ops[j] = "ignored"
    /\ dispatches[r].state = "fulfilled"

\* The eligible Log-policy targets whose delivery has failed in original
\* dispatch r, and those of them whose failure started a recovery dispatch.
FailedLog(r) ==
  {i \in Positions : /\ Eligible(r, i) /\ parsedTargets[i].errorPolicy = "LOG"
                     /\ dispatches[r].ops[i] \in Failed}

Relogged(r) == {i \in FailedLog(r) : dispatches[r].ops[i] = "relog"}

\* Every recovery dispatch of the call of r was started by r itself for a
\* target of its own, which its first message names, and has started none.
RecoveriesFlat(r) ==
  \A k \in RecoveriesOf(r) :
    LET d == dispatches[k]
    IN  /\ d.parent = r /\ d.ptarget \in Relogged(r) /\ dispatches[r].child[d.ptarget] = k
        /\ d.messages[1] = Str(FailedToLog(d.ptarget - 1))
        /\ \A j \in RecoveriesOf(r) : dispatches[j].ptarget = d.ptarget => j = k
        /\ \A i \in Positions : d.child[i] = 0 /\ d.ops[i] # "relog"

\* C34 as stated: the call of r has one recovery dispatch per eligible
\* Log-policy target that failed.
C34_AsStated ==
  \A r \in Roots : Cardinality(RecoveriesOf(r)) = Cardinality(FailedLog(r))

\* C34, amended: the call of r has one recovery dispatch per eligible
\* Log-policy target whose failure was caught while the factory was not
\* destroyed, and none for a failure caught after destroy(); each names its
\* own target, none starts another, and the call has invoked sinks at most
\* N + k*N times, k being the number of eligible Log-policy targets that failed.
C34_RecoveryCount ==
  \A r \in Roots :
    LET N == Len(parsedTargets)
    IN  /\ Cardinality(RecoveriesOf(r)) = Cardinality(Relogged(r))
        /\ \A i \in FailedLog(r) \ Relogged(r) :
             dispatches[r].ops[i] = "dropped" /\ destroyed /\ RecoveriesFor(r, i) = {}
        /\ \A i \in Relogged(r) : Cardinality(RecoveriesFor(r, i)) = 1
        /\ RecoveriesFlat(r)
        /\ Invoked(dispatches, dispatches[r].call) <= N + Cardinality(Relogged(r)) * N
        /\ Invoked(dispatches, dispatches[r].call) <= N + Cardinality(FailedLog(r)) * N

\* Both targets of a call failed under Log: two recovery dispatches, one
\* naming target 0 and one naming target 1, and six sink invocations, the
\* bound for N = 2 and k = 2.
C34_Witness ==
  \E r \in Roots : \E a, b \in RecoveriesOf(r) :
    /\ FailedLog(r) = {1, 2} /\ Relogged(r) = {1, 2}
    /\ Cardinality(RecoveriesOf(r)) = 2
    /\ dispatches[a].ptarget = 1 /\ dispatches[a].messages[1] = Str("Failed to log to target 0:")
    /\ dispatches[b].ptarget = 2 /\ dispatches[b].messages[1] = Str("Failed to log to target 1:")
    /\ Invoked(dispatches, dispatches[r].call) = 6
    /\ Pending(dispatches) = {}

\* The name field of the Text payload of target i in dispatch d, without
\* colour codes: the display name of the calling logger, padded.
NameField(d, i) ==
  styledSource(loggers[d.logger].component, loggers[d.logger].source,
               loggers[d.logger].color, d.targets[i].uniform, d.maxSourceLength, FALSE)

\* The Text payloads of targets with uniform padding.
UniformPayloads == {p \in Payloads("TEXT") : dispatches[p[1]].targets[p[2]].uniform}

\* C36 as stated: no logger's display name is longer than maxSourceLength,
\* and every payload a step renders with uniform padding has a name field
\* of as many characters as maxSourceLength is then.
C36_AsStated ==
  /\ [](\A k \in 1..Len(loggers) :
          Len(DisplayName(loggers[k].component, loggers[k].source)) <= maxSourceLength)
  /\ [][\A id \in 1..Len(dispatches') :
          (\A k \in 1..Len(dispatches) : dispatches[k].timestamp # dispatches'[id].timestamp) =>
            \A i \in 1..Len(dispatches'[id].targets) :
              (/\ dispatches'[id].targets[i].format = "TEXT"
               /\ dispatches'[id].targets[i].uniform
               /\ dispatches'[id].ops[i] # "skipped") =>
                 TextLen(styledSource(loggers[dispatches'[id].logger].component,
                                      loggers[dispatches'[id].logger].source,
                                      loggers[dispatches'[id].logger].color, TRUE,
                                      dispatches'[id].maxSourceLength, FALSE))
                   = maxSourceLength']_vars

\* C36, amended: no logger's display name is longer than maxSourceLength in
\* any state after its creation; a payload rendered with uniform padding has
\* a name field of exactly the width its call read from maxSourceLength when
\* the level method was called, which is at least the length of the calling
\* logger's display name and at most maxSourceLength; the payloads of an
\* original dispatch are rendered at the maxSourceLength of that moment.
C36_NameFitsWidth ==
  /\ [](/\ \A k \in 1..Len(loggers) :
             Len(DisplayName(loggers[k].component, loggers[k].source)) <= maxSourceLength
        /\ \A p \in UniformPayloads :
             LET d == dispatches[p[1]]
                 l == loggers[d.logger]
             IN  /\ TextLen(NameField(d, p[2])) = d.maxSourceLength
                 /\ Len(DisplayName(l.component, l.source)) <= d.maxSourceLength
                 /\ d.maxSourceLength <= maxSourceLength)
  /\ [][(lastOp'.op = "log" /\ lastOp'.error = NoError) =>
          \A id \in 1..Len(dispatches') :
            (dispatches'[id].call = nCalls' /\ dispatches'[id].parent = 0) =>
              dispatches'[id].maxSourceLength = maxSourceLength']_vars

\* The logger "svc" with the empty source called a level method when
\* maxSourceLength was 4; the logger "svc/db" was created, and then the
\* call's operation failed: the recovery event is rendered with a name
\* field of 4 characters for the name of 3, while maxSourceLength is 6.
C36_Witness ==
  \E p \in UniformPayloads :
    LET d == dispatches[p[1]]
        l == loggers[d.logger]
    IN  /\ d.parent # 0 /\ l.component = "svc" /\ l.source = ""
        /\ Len(DisplayName(l.component, l.source)) = 3
        /\ TextLen(NameField(d, p[2])) = 4 /\ d.maxSourceLength = 4
        /\ maxSourceLength = 6 /\ Len(loggers) = 2

\* C31: a level-method call and the settlement of a sink operation, with the
\* recovery dispatch it may start, change neither the factory's target list
\* nor maxSourceLength nor the destroyed flag nor the loggers; the list of a
\* living factory holds the configured policies, and the forced Ignore is
\* found in the lists of recovery dispatches only, which differ from the
\* factory's list in nothing else; so a failure of a Log-policy target in an
\* original dispatch starts a recovery dispatch whenever the factory is not
\* destroyed, whatever failed before.
C31_LogCallFrame ==
  /\ [](/\ ~destroyed =>
             \A i \in Positions :
               targets[1][i].errorPolicy = errorPolicy(descs[i].errorPolicy)
        /\ \A id \in Ids : \A i \in Positions :
             /\ dispatches[id].parent = 0 => dispatches[id].targets[i] = ParseTarget(descs[i])
             /\ dispatches[id].parent # 0 =>
                  dispatches[id].targets[i] = [ParseTarget(descs[i]) EXCEPT !.errorPolicy = "IGNORE"])
  /\ [][lastOp'.op \in {"log", "settle"} =>
          /\ UNCHANGED <<descs, parsedTargets, targets, maxSourceLength, destroyed, loggers>>
          /\ (/\ lastOp'.op = "settle" /\ ~destroyed
              /\ dispatches[lastOp'.disp].parent = 0
              /\ ParseTarget(descs[lastOp'.target]).errorPolicy = "LOG"
              /\ dispatches'[lastOp'.disp].ops[lastOp'.target] # "ok")
               => /\ dispatches'[lastOp'.disp].ops[lastOp'.target] = "relog"
                  /\ Len(dispatches') = Len(dispatches) + 1]_vars

\* The second call of a factory whose Log-policy target failed in the first
\* call too: its failure has again started a recovery dispatch, over a list
\* with the policy forced, and the factory's list still says Log.
C31_Witness ==
  \E f, h \in Positions : \E r \in Roots : \E k \in Recoveries :
    /\ f # h /\ ~destroyed /\ nLogged = 2 /\ dispatches[r].call = 2
    /\ targets[1][f].errorPolicy = "LOG" /\ targets[1][h].errorPolicy # "LOG"
    /\ sinkCalls[f] = 4 /\ lastOp.op = "settle" /\ lastOp.disp = r /\ lastOp.target = f
    /\ dispatches[r].ops[f] = "relog" /\ dispatches[r].child[f] = k
    /\ dispatches[k].targets[f].errorPolicy = "IGNORE"

====
